---- MODULE Spec2Model ----
(***************************************************************************)
(* Model of the IREE GPU code generation dialect: the MultiMma operation   *)
(* (construction, verification, iteration bounds), its unrolling pattern,  *)
(* the lowering of ShuffleTensor to two value barriers, and the fusion of  *)
(* a producer scf.forall into a consumer's extract_slice.                  *)
(*                                                                         *)
(* Conventions.  Dimension positions, operand indices and tile offsets are *)
(* 0-based as in the C++ code; TLA+ sequences are 1-based, so position p   *)
(* of a C++ array a is a[p + 1] here.                                      *)
(***************************************************************************)
EXTENDS Integers, Sequences, FiniteSets, TLC

VARIABLES
    op,            \* the MultiMma op under study (MultiMmaOp::build's result)
    pc,            \* where the MultiMma flow stands
    verifyResult,  \* what MultiMmaOp::verify returned ("" before it ran)
    derived,       \* results of the getIterationBounds calls made so far
    unrollCall,    \* the options and reads of the unroll pattern's application
    unroll,        \* what UnrollMultiMmaPattern::matchAndRewrite did
    shuffleBlock,  \* the block with the shuffle that LowerShuffleTensor is given
    lowered,       \* what LowerShuffleTensor::matchAndRewrite made of it
    fuseInput,     \* the loops and the chain fuseForallIntoSlice is called on
    fused,         \* what fuseForallIntoSlice made of them
    buildArgs,     \* the arguments of the MultiMmaOp::build call that made op
    mmaRewrite,    \* what the lowering or the unit-dimension folding did to op
    barrierBlock,  \* the block with the barriers LowerValueBarrierPattern is given
    barrierLowered,\* what LowerValueBarrierPattern::matchAndRewrite made of it
    nativeShape,   \* what the native shape callback of the unroll options returns
    oddRewrites    \* whether the driver has rewritten an odd number of times

mmaVars == <<op, pc, verifyResult, derived, unrollCall, unroll>>

shuffleVars == <<shuffleBlock, lowered>>

fuseVars == <<fuseInput, fused>>

patternVars == <<buildArgs, mmaRewrite>>

barrierVars == <<barrierBlock, barrierLowered>>

driverVars == <<nativeShape, oddRewrites>>

vars == <<op, pc, verifyResult, derived, unrollCall, unroll, shuffleBlock, lowered,
          fuseInput, fused, buildArgs, mmaRewrite, barrierBlock, barrierLowered,
          nativeShape, oddRewrites>>

----------------------------------------------------------------------------
(* Bounds of the model.                                                    *)

\* Outer (iterated) operand extents range over 1..MaxExtent.
MaxExtent == 2

\* ShapedType::kDynamic, the marker of a dynamic dimension (a negative value
\* no static extent can take).
kDynamic == -1

----------------------------------------------------------------------------
(* Sequences helpers.                                                      *)

Range(s) == {s[i] : i \in 1..Len(s)}

SeqsOfLen(S, k) == [1..k -> S]

Min(S) == CHOOSE x \in S : \A y \in S : x <= y

RECURSIVE Product(_)
Product(s) == IF s = <<>> THEN 1 ELSE Head(s) * Product(Tail(s))

Ones(k) == [i \in 1..k |-> 1]

Zeros(k) == [i \in 1..k |-> 0]

----------------------------------------------------------------------------
(* Affine maps.  A map is [numDims, numSymbols, results]; a result         *)
(* expression is a dimension d_position or a compound expression.          *)

getAffineDimExpr(position) == [kind |-> "dim", position |-> position]

CompoundExpr == [kind |-> "add", position |-> 0]

AffineMapOf(numDims, numSymbols, results) ==
    [numDims |-> numDims, numSymbols |-> numSymbols, results |-> results]

\* AffineMap::isProjectedPermutation(): no symbols, no more results than
\* inputs, every result a dimension, no dimension twice.
isProjectedPermutation(map) ==
    /\ map.numSymbols = 0
    /\ Len(map.results) <= map.numDims
    /\ \A i \in 1..Len(map.results) : map.results[i].kind = "dim"
    /\ \A i, j \in 1..Len(map.results) :
          i # j => map.results[i] # map.results[j]

\* applyPermutationMap(map, source): the source entries the map's results
\* select, in result order.
applyPermutationMap(map, source) ==
    [i \in 1..Len(map.results) |-> source[map.results[i].position + 1]]

\* linalg::inferContractionDims(ArrayRef<AffineMap>): it reads the maps and
\* nothing else (the op's declared iterator kinds are not passed to it); it
\* fails when there are not three maps and otherwise classifies every
\* dimension from the maps alone.
inferContractionDims(indexingMaps) == Len(indexingMaps) = 3

----------------------------------------------------------------------------
(* MultiMmaOp.                                                             *)

ShapedTypeOf(shape, elementType) == [shape |-> shape, elementType |-> elementType]

\* The intrinsic kinds of the model: getABCElementTypes() of each.
MmaKinds == {[name |-> "MFMA_F16_16x16x16_F32", a |-> "f16", b |-> "f16", c |-> "f32"]}

getABCElementTypes(kind) == <<kind.a, kind.b, kind.c>>

\* MultiMmaOp::build: operands lhs, rhs, acc in that order, the result type is
\* the accumulator's type, the three attributes are stored as given.
buildResultType(acc) == acc

\* A builder that puts the accumulator first.
buildAccFirst(lhs, rhs, acc, indexingMaps, iteratorTypes, kind, tensorSemantics) ==
    [operands      |-> <<acc, lhs, rhs>>,
     resultType    |-> buildResultType(acc),
     indexingMaps  |-> indexingMaps,
     iteratorTypes |-> iteratorTypes,
     kind          |-> kind,
     tensor        |-> tensorSemantics]

build(lhs, rhs, acc, indexingMaps, iteratorTypes, kind, tensorSemantics) ==
    [operands      |-> <<lhs, rhs, acc>>,
     resultType    |-> buildResultType(acc),
     indexingMaps  |-> indexingMaps,
     iteratorTypes |-> iteratorTypes,
     kind          |-> kind,
     tensor        |-> tensorSemantics]

getLhsType(o) == o.operands[1]
getRhsType(o) == o.operands[2]
getAccType(o) == o.operands[3]
getResultType(o) == o.resultType
hasTensorSemantics(o) == o.tensor

\* getResultIndex: the first result position holding targetExpr, -1 if none.
getResultIndex(map, targetExpr) ==
    IF \E i \in 1..Len(map.results) : map.results[i] = targetExpr
    THEN Min({i \in 1..Len(map.results) : map.results[i] = targetExpr}) - 1
    ELSE 0 - 1

\* The map and the shape getIterationBounds reads iterator i's bound from:
\* a reduction iterator's from the lhs, any other's from the result.
boundMap(o, i) ==
    IF o.iteratorTypes[i + 1] = "reduction" THEN o.indexingMaps[1]
    ELSE o.indexingMaps[3]

\* A reading of the bounds that takes a reduction iterator's from the rhs
\* shape; the lhs and the rhs shapes differ where their maps do.
boundShapeOfRhs(o, i) ==
    IF o.iteratorTypes[i + 1] = "reduction" THEN getRhsType(o).shape
    ELSE getResultType(o).shape

boundShape(o, i) ==
    IF o.iteratorTypes[i + 1] = "reduction" THEN getLhsType(o).shape
    ELSE getResultType(o).shape

\* Whether the lookup for iterator i finds its dimension (the code asserts
\* it does) at a position the shape has.
boundFound(o, i) ==
    LET idx == getResultIndex(boundMap(o, i), getAffineDimExpr(i))
    IN  idx >= 0 /\ idx + 1 <= Len(boundShape(o, i))

allBoundsFound(o) == \A i \in 0..(Len(o.iteratorTypes) - 1) : boundFound(o, i)

\* MultiMmaOp::getIterationBounds.  When a lookup fails the code's assertion
\* fails (asserts: the build checks assertions, and the call aborts) or the
\* shape is read out of range (the read yields junk).
getIterationBounds(o, asserts, junk) ==
    LET n == Len(o.iteratorTypes)
        bound(i) ==
            IF boundFound(o, i)
            THEN boundShape(o, i)[getResultIndex(boundMap(o, i), getAffineDimExpr(i)) + 1]
            ELSE junk
    IN  IF asserts /\ ~allBoundsFound(o)
        THEN [aborted |-> TRUE, bounds |-> <<>>]
        ELSE [aborted |-> FALSE, bounds |-> [k \in 1..n |-> bound(k - 1)]]

\* The per-map checks with a rank check that lets a map have as many
\* results as its operand has dimensions.
verifyMapUpToRank(o, index) ==
    LET map == o.indexingMaps[index + 1]
        shape == o.operands[index + 1].shape
        rank == Len(shape)
        numIterators == Len(o.iteratorTypes)
    IN  IF map.numSymbols # 0 THEN "expected indexing map to have no symbols"
        ELSE IF map.numDims # numIterators
            THEN "expected indexing map to have numIterators inputs"
        ELSE IF Len(map.results) > rank
            THEN "expected indexing map to have fewer outputs than rank"
        ELSE IF ~isProjectedPermutation(map)
            THEN "expected indexing map to be a projected permutation"
        ELSE IF \E p \in (Len(map.results) + 1)..rank : shape[p] = kDynamic
            THEN "Unexpected dynamic inner dim"
        ELSE ""

\* verify's per-map checks, in the code's order; "" when map index passes.
verifyMap(o, index) ==
    LET map == o.indexingMaps[index + 1]
        shape == o.operands[index + 1].shape
        rank == Len(shape)
        numIterators == Len(o.iteratorTypes)
    IN  IF map.numSymbols # 0 THEN "expected indexing map to have no symbols"
        ELSE IF map.numDims # numIterators
            THEN "expected indexing map to have numIterators inputs"
        ELSE IF Len(map.results) >= rank
            THEN "expected indexing map to have fewer outputs than rank"
        ELSE IF ~isProjectedPermutation(map)
            THEN "expected indexing map to be a projected permutation"
        ELSE IF \E p \in (Len(map.results) + 1)..rank : shape[p] = kDynamic
            THEN "Unexpected dynamic inner dim"
        ELSE ""

\* verify's verifyOperandShape lambda: the map's results zipped with the
\* shape (the shorter one decides), each size against its dimension's bound.
verifyOperandShape(type, map, bounds) ==
    \A p \in 1..Min({Len(map.results), Len(type.shape)}) :
        type.shape[p] = bounds[map.results[p].position + 1]

\* The part of verify before it derives the bounds: the number of maps, the
\* per-map checks, the contraction dimensions; "" when all pass.
verifyStructure(o) ==
    IF Len(o.indexingMaps) # 3 THEN "expected an indexing map for each operand"
    ELSE IF \E k \in 0..2 : verifyMap(o, k) # ""
        THEN verifyMap(o, Min({k \in 0..2 : verifyMap(o, k) # ""}))
    ELSE IF ~inferContractionDims(o.indexingMaps)
        THEN "failed to infer contraction dims"
    ELSE ""

\* The part of verify after it: it is what getIterationBounds returned.
verifyShapesAndTypes(o, it) ==
    LET abc == getABCElementTypes(o.kind)
    IN  IF it.aborted THEN "aborted"
        ELSE IF ~verifyOperandShape(getLhsType(o), o.indexingMaps[1], it.bounds)
            THEN "lhs shape does not match iteration bounds"
        ELSE IF ~verifyOperandShape(getRhsType(o), o.indexingMaps[2], it.bounds)
            THEN "rhs shape does not match iteration bounds"
        ELSE IF ~verifyOperandShape(getAccType(o), o.indexingMaps[3], it.bounds)
            THEN "accumulator shape does not match iteration bounds"
        ELSE IF abc[1] # getLhsType(o).elementType
            THEN "lhs element type does not match"
        ELSE IF abc[2] # getRhsType(o).elementType
            THEN "rhs element type does not match"
        ELSE IF abc[3] # getAccType(o).elementType
            THEN "accumulator element type does not match"
        ELSE "success"

\* MultiMmaOp::verify: "success", the diagnostic it emits, or "aborted" when
\* the assertion of getIterationBounds fails under it.
verify(o, asserts, junk) ==
    IF verifyStructure(o) # "" THEN verifyStructure(o)
    ELSE verifyShapesAndTypes(o, getIterationBounds(o, asserts, junk))

----------------------------------------------------------------------------
(* The ops the model starts from: every contraction over two iteration     *)
(* dimensions whose maps are projected permutations and whose operand      *)
(* shapes follow some bounds, as it is or changed in one place.            *)

IterationDims == {0, 1}

NumIterationDims == Cardinality(IterationDims)

IteratorKinds == {"parallel", "reduction"}

InnerShape == <<4>>

\* The result lists of a projected permutation of the iteration dimensions.
ResultLists ==
    {r \in UNION {SeqsOfLen({getAffineDimExpr(d) : d \in IterationDims}, k) :
                    k \in 0..NumIterationDims} :
        \A i, j \in 1..Len(r) : i # j => r[i] # r[j]}

OperandOf(results, extents, elementType) ==
    ShapedTypeOf([i \in 1..Len(results) |-> extents[results[i].position + 1]]
                    \o InnerShape, elementType)

WellFormedOps ==
    {build(OperandOf(rl, b, k.a), OperandOf(rr, b, k.b), OperandOf(ra, b, k.c),
           <<AffineMapOf(NumIterationDims, 0, rl), AffineMapOf(NumIterationDims, 0, rr),
             AffineMapOf(NumIterationDims, 0, ra)>>,
           its, k, sem) :
        rl \in ResultLists, rr \in ResultLists, ra \in ResultLists,
        its \in SeqsOfLen(IteratorKinds, NumIterationDims),
        b \in SeqsOfLen(1..MaxExtent, NumIterationDims),
        k \in MmaKinds, sem \in BOOLEAN}

WithOperand(o, index, type) ==
    [o EXCEPT !.operands[index + 1] = type,
              !.resultType = IF index = 2 THEN buildResultType(type) ELSE @]

WithMap(o, index, map) == [o EXCEPT !.indexingMaps[index + 1] = map]

\* The ops one change away from o.  A dynamic inner dimension is a change of
\* a tensor op (vector types have none); the other changes are made to the
\* vector ops.
Defects(o) ==
    IF o.tensor
    THEN UNION {
        LET type == o.operands[index + 1]
        IN  {WithOperand(o, index, [type EXCEPT !.shape[Len(type.shape)] = kDynamic])}
        : index \in 0..2}
    ELSE
    \* one indexing map too few
    {[o EXCEPT !.indexingMaps = SubSeq(@, 1, Len(@) - 1)]}
    \* one iterator kind more than the maps have inputs
    \cup {[o EXCEPT !.iteratorTypes = Append(@, kd)] : kd \in IteratorKinds}
    \cup UNION {
        LET type == o.operands[index + 1]
            map == o.indexingMaps[index + 1]
            outer == Len(map.results)
        IN  \* a symbol in the map
            {WithMap(o, index, [map EXCEPT !.numSymbols = 1])}
            \* a compound result, or a dimension twice
            \cup {WithMap(o, index, [map EXCEPT !.results[p] = e]) :
                    p \in 1..outer,
                    e \in {CompoundExpr} \cup {map.results[q] : q \in 1..outer}}
            \* no inner dimension (rank = number of map results)
            \cup {WithOperand(o, index, [type EXCEPT !.shape = SubSeq(@, 1, outer)])}
            \* another element type
            \cup {WithOperand(o, index, [type EXCEPT !.elementType = t]) :
                    t \in {"f16", "f32"}}
            \* another outer extent
            \cup {WithOperand(o, index, [type EXCEPT !.shape[p] = e]) :
                    p \in 1..outer, e \in 1..MaxExtent}
        : index \in 0..2}

\* What an out-of-range read of a shape may yield.
JunkReads == 1..MaxExtent

----------------------------------------------------------------------------
(* Unrolling (UnrollMultiMmaPattern).                                      *)

\* computeShapeRatio(shape, subShape): none when subShape is longer or some
\* trailing-aligned size is not a multiple; else the ratios of the aligned
\* sizes after the leading sizes of shape that subShape does not reach.
computeShapeRatio(shape, subShape) ==
    LET lead == Len(shape) - Len(subShape)
    IN  IF lead < 0 THEN [has |-> FALSE, value |-> <<>>]
        ELSE IF \E i \in 1..Len(subShape) : shape[lead + i] % subShape[i] # 0
            THEN [has |-> FALSE, value |-> <<>>]
        ELSE [has |-> TRUE,
              value |-> [i \in 1..Len(shape) |->
                            IF i <= lead THEN shape[i]
                            ELSE shape[i] \div subShape[i - lead]]]

\* A pattern without the early exit.
unrollAlwaysHasEffect(shapeRatio) == FALSE

\* The early exit of the pattern: every ratio is 1.
unrollHasNoEffect(shapeRatio) == \A i \in 1..Len(shapeRatio) : shapeRatio[i] = 1

\* computeStrides: the suffix products of the sizes.
computeStrides(sizes) ==
    [i \in 1..Len(sizes) |-> Product(SubSeq(sizes, i + 1, Len(sizes)))]

\* invertPermutationVector: inverse[permutation[i]] = i.
invertPermutationVector(permutation) ==
    [i \in 1..Len(permutation) |->
        (CHOOSE j \in 1..Len(permutation) : permutation[j] = i - 1) - 1]

\* StaticTileOffsetRange(shape, tileShape, loopOrder): the tile offsets in
\* the order the range visits them; dimension loopOrder[0] varies slowest.
StaticTileOffsetRange(shape, tileShape, loopOrder) ==
    LET shapeRatio == computeShapeRatio(shape, tileShape).value
        permuted == [i \in 1..Len(shapeRatio) |-> shapeRatio[loopOrder[i] + 1]]
        sliceStrides == computeStrides(permuted)
        inverseLoopOrder == invertPermutationVector(loopOrder)
        delinearize(linearIndex) ==
            [i \in 1..Len(permuted) |->
                (linearIndex \div sliceStrides[i]) % permuted[i]]
        tileCoords(linearIndex) ==
            [i \in 1..Len(permuted) |->
                delinearize(linearIndex)[inverseLoopOrder[i] + 1]]
    IN  [k \in 1..Product(shapeRatio) |->
            [i \in 1..Len(shapeRatio) |-> tileCoords(k - 1)[i] * tileShape[i]]]

\* SSA values: an operand of the op being rewritten, or the result of the
\* index-th operation the rewrite created.
OperandValue(index) == [def |-> "operand", index |-> index]

ResultValue(index) == [def |-> "result", index |-> index]

CreatedOp(name, operands, offsets, type, attrs, tile) ==
    [name |-> name, operands |-> operands, offsets |-> offsets, type |-> type,
     indexingMaps |-> attrs.indexingMaps, iteratorTypes |-> attrs.iteratorTypes,
     kind |-> attrs.kind, tile |-> tile]

NoAttrs == [indexingMaps |-> <<>>, iteratorTypes |-> <<>>, kind |-> ""]

\* A clone that drops the attributes of the op it copies.
clonedWithoutAttrs(o) == NoAttrs

\* mlir::clone(rewriter, mmaOp, targetType, slicesOperands): the clone keeps
\* every attribute of mmaOp.
clonedAttrs(o) ==
    [indexingMaps |-> o.indexingMaps, iteratorTypes |-> o.iteratorTypes,
     kind |-> o.kind.name]

\* The extractOperand lambda: a vector.extract_strided_slice of the operand
\* at operandOffsets, of the target shape seen through the operand's map and
\* the operand's remaining dimensions whole.
extractOperand(o, index, targetShape, operandOffsets, tile) ==
    LET type == o.operands[index + 1]
        operandShape == applyPermutationMap(o.indexingMaps[index + 1], targetShape)
    IN  CreatedOp("vector.extract_strided_slice", <<OperandValue(index)>>,
                  operandOffsets,
                  ShapedTypeOf(operandShape \o SubSeq(type.shape, Len(operandShape) + 1,
                                                      Len(type.shape)),
                               type.elementType),
                  NoAttrs, tile)

getAccInnerShape(o) ==
    SubSeq(getAccType(o).shape, Len(o.indexingMaps[3].results) + 1,
           Len(getAccType(o).shape))

\* accCache.find(key): the position of key in the map vector, 0 if absent.
cacheFind(accCache, key) ==
    IF \E i \in 1..Len(accCache) : accCache[i].key = key
    THEN CHOOSE i \in 1..Len(accCache) : accCache[i].key = key
    ELSE 0

\* accCache[key] = value: overwrite in place, or append a new entry.
cacheStore(accCache, key, value) ==
    IF cacheFind(accCache, key) # 0
    THEN [accCache EXCEPT ![cacheFind(accCache, key)].value = value]
    ELSE Append(accCache, [key |-> key, value |-> value])

\* The accumulator operand of a tile: the cached partial result if there is
\* one for accOffsets, else a fresh slice of the original accumulator (the
\* third operation the tile creates).
tileAccumulator(accCache, accOffsets, freshIndex) ==
    IF cacheFind(accCache, accOffsets) # 0
    THEN accCache[cacheFind(accCache, accOffsets)].value
    ELSE ResultValue(freshIndex)

\* One iteration of the loop over the tile offsets: st is [created, accCache].
unrollTile(o, targetShape, offsets, st) ==
    LET lhsOffsets == applyPermutationMap(o.indexingMaps[1], offsets)
        rhsOffsets == applyPermutationMap(o.indexingMaps[2], offsets)
        accOffsets == applyPermutationMap(o.indexingMaps[3], offsets)
        c0 == st.created
        c1 == Append(c0, extractOperand(o, 0, targetShape, lhsOffsets, offsets))
        c2 == Append(c1, extractOperand(o, 1, targetShape, rhsOffsets, offsets))
        cached == cacheFind(st.accCache, accOffsets) # 0
        c3 == IF cached THEN c2
              ELSE Append(c2, extractOperand(o, 2, targetShape, accOffsets, offsets))
        accValue == tileAccumulator(st.accCache, accOffsets, Len(c3))
        dstShape == applyPermutationMap(o.indexingMaps[3], targetShape)
                        \o getAccInnerShape(o)
        targetType == ShapedTypeOf(dstShape, getResultType(o).elementType)
        newOp == CreatedOp("iree_gpu.multi_mma",
                           <<ResultValue(Len(c0) + 1), ResultValue(Len(c0) + 2), accValue>>,
                           <<>>, targetType, clonedAttrs(o), offsets)
        c4 == Append(c3, newOp)
    IN  [created |-> c4,
         accCache |-> cacheStore(st.accCache, accOffsets, ResultValue(Len(c4)))]

RECURSIVE unrollTiles(_, _, _, _)
unrollTiles(o, targetShape, tiles, st) ==
    IF tiles = <<>> THEN st
    ELSE unrollTiles(o, targetShape, Tail(tiles),
                     unrollTile(o, targetShape, Head(tiles), st))

\* Offsets of the outer dimensions alone.
outerOffsets(o, key) == key

\* The offsets of one vector.insert_strided_slice of the assembly: the cache
\* key, then a zero for every inner dimension.
assembleOffsets(o, key) == key \o Zeros(Len(getAccInnerShape(o)))

\* Assembling the accumulator: a zero constant of the original result type,
\* then one vector.insert_strided_slice per cache entry, in cache order, each
\* into the previous result.
RECURSIVE assemble(_, _, _, _)
assemble(o, accCache, created, result) ==
    IF accCache = <<>> THEN [created |-> created, result |-> result]
    ELSE LET ins == CreatedOp("vector.insert_strided_slice",
                              <<Head(accCache).value, result>>,
                              assembleOffsets(o, Head(accCache).key),
                              created[result.index].type, NoAttrs, <<>>)
         IN  assemble(o, Tail(accCache), Append(created, ins),
                      ResultValue(Len(created) + 1))

NoValue == [def |-> "none", index |-> 0]

\* What one application of the pattern did: its status, the reason of a match
\* failure, the operations it created in creation order, the final accCache,
\* and the value the op was replaced with (NoValue: the op and its uses are
\* as they were).
UnrollOutcome(status, reason, created, accCache, replacement) ==
    [status |-> status, reason |-> reason, created |-> created,
     accCache |-> accCache, replacement |-> replacement]

matchFailure(reason) == UnrollOutcome("failure", reason, <<>>, <<>>, NoValue)

\* UnrollMultiMmaPattern::matchAndRewrite on op o.  filterOk: there is no
\* filter constraint or it accepts o; native: what options.nativeShape(o)
\* returns; loopOrder: what getUnrollOrder returns; junk: what a failing
\* lookup of getIterationBounds reads.
matchAndRewriteUnroll(o, filterOk, native, loopOrder, junk) ==
    LET unrollShape == getIterationBounds(o, FALSE, junk).bounds
        shapeRatio == computeShapeRatio(unrollShape, native.value)
    IN  IF ~filterOk THEN matchFailure("unrolling filter")
        ELSE IF ~native.has THEN matchFailure("unspecified native unroll shape")
        ELSE IF ~shapeRatio.has
            THEN matchFailure("operation unroll shape not divisible by target shape")
        ELSE IF unrollHasNoEffect(shapeRatio.value)
            THEN matchFailure("operation already unrolled to native shape")
        ELSE IF hasTensorSemantics(o)
            \* cast<VectorType>(mmaOp.getResultType()) of a tensor type
            THEN UnrollOutcome("crashed", "", <<>>, <<>>, NoValue)
        ELSE LET tiles == StaticTileOffsetRange(unrollShape, native.value, loopOrder)
                 st == unrollTiles(o, native.value, tiles,
                                   [created |-> <<>>, accCache |-> <<>>])
                 zero == CreatedOp("arith.constant", <<>>, <<>>, getResultType(o),
                                   NoAttrs, <<>>)
                 done == assemble(o, st.accCache, Append(st.created, zero),
                                  ResultValue(Len(st.created) + 1))
             IN  UnrollOutcome("success", "", done.created, st.accCache, done.result)

\* The traversal orders getUnrollOrder may return: the permutations of the
\* iterator positions (the identity is the default order).
LoopOrders(n) ==
    {p \in SeqsOfLen(0..(n - 1), n) : \A i, j \in 1..n : i # j => p[i] # p[j]}

UnrollCall(filterOk, native, loopOrder, junk) ==
    [filterOk |-> filterOk, native |-> native, loopOrder |-> loopOrder, junk |-> junk]

NoNativeShape == [has |-> FALSE, value |-> <<>>]

\* The applications of the pattern to o: the filter constraint rejects o; or
\* the native shape callback returns nothing; or it returns a shape with one
\* size per iterator, under every traversal order and every value a failing
\* lookup of the bounds may read.
UnrollCalls(o) ==
    LET n == Len(o.iteratorTypes)
        identity == [i \in 1..n |-> i - 1]
    IN  {UnrollCall(FALSE, NoNativeShape, identity, 1),
         UnrollCall(TRUE, NoNativeShape, identity, 1)}
        \cup {UnrollCall(TRUE, [has |-> TRUE, value |-> t], order, junk) :
                t \in SeqsOfLen(1..MaxExtent, n), order \in LoopOrders(n),
                junk \in IF allBoundsFound(o) THEN {1} ELSE JunkReads}

----------------------------------------------------------------------------
(* The IR the shuffle lowering and the forall fusion rewrite: a block is   *)
(* the sequence of its operations; an operation has an identity, a name,   *)
(* operands, the mixed offsets/sizes/strides of a slice op, and the        *)
(* operations of its region's block.                                       *)

MaxBodyOps == 2   \* operations in a shuffle body, its terminator apart
MaxUsers == 2     \* users of a shuffle's result

OpId(role, n) == [role |-> role, n |-> n]

OpResult(id, index) == [def |-> "result", of |-> id, index |-> index]

BlockArgument(owner, index) == [def |-> "arg", of |-> owner, index |-> index]

NullValue == [def |-> "null", of |-> OpId("", 0), index |-> 0]

\* OpFoldResult: an index attribute or a value.
IndexAttr(n) == [isAttr |-> TRUE, int |-> n, value |-> NullValue]

ValueEntry(v) == [isAttr |-> FALSE, int |-> 0, value |-> v]

\* value holds the integers of an op's attribute: the value of a constant,
\* the worker counts of a linearizing affine.apply.
Operation(id, name, operands, offsets, sizes, strides, region) ==
    [id |-> id, name |-> name, operands |-> operands, offsets |-> offsets,
     sizes |-> sizes, strides |-> strides, region |-> region, value |-> <<>>]

PlainOp(id, name, operands) == Operation(id, name, operands, <<>>, <<>>, <<>>, <<>>)

AttrOp(id, name, operands, value) == [PlainOp(id, name, operands) EXCEPT !.value = value]

\* The position of the operation id in block, 0 when it is not there.
indexOf(block, id) ==
    IF \E k \in 1..Len(block) : block[k].id = id
    THEN CHOOSE k \in 1..Len(block) : block[k].id = id
    ELSE 0

\* The block with ops in front of the operation at position.
insertBefore(block, position, ops) ==
    SubSeq(block, 1, position - 1) \o ops \o SubSeq(block, position, Len(block))

eraseAt(block, position) ==
    SubSeq(block, 1, position - 1) \o SubSeq(block, position + 1, Len(block))

replaceEntry(entry, from, to) ==
    IF ~entry.isAttr /\ entry.value = from THEN ValueEntry(to) ELSE entry

\* A replacement that leaves every use as it is.
leaveUsesOf(operation, from, to) == operation

\* Operation::replaceUsesOfWith: every operand of operation that is from.
replaceUsesOfWith(operation, from, to) ==
    [operation EXCEPT
        !.operands = [i \in 1..Len(operation.operands) |->
                        IF operation.operands[i] = from THEN to
                        ELSE operation.operands[i]],
        !.offsets = [i \in 1..Len(operation.offsets) |->
                        replaceEntry(operation.offsets[i], from, to)],
        !.sizes = [i \in 1..Len(operation.sizes) |->
                        replaceEntry(operation.sizes[i], from, to)],
        !.strides = [i \in 1..Len(operation.strides) |->
                        replaceEntry(operation.strides[i], from, to)]]

\* replaceAllUsesWith over a block and the regions of its operations.
replaceAllUsesWith(block, from, to) ==
    [k \in 1..Len(block) |->
        LET operation == replaceUsesOfWith(block[k], from, to)
        IN  [operation EXCEPT
                !.region = [j \in 1..Len(operation.region) |->
                               replaceUsesOfWith(operation.region[j], from, to)]]]

----------------------------------------------------------------------------
(* ShuffleTensorOp and its lowering.                                       *)

FuncBlock == OpId("func.block", 0)

ShuffleId == OpId("iree_gpu.shuffle_tensor", 0)

ShuffleBody == OpId("iree_gpu.shuffle_tensor.body", 0)

\* ShuffleTensorOp::build: the op with source and dest, the mixed slice
\* entries, and a body block of one argument (of the dest's type) and no
\* operation.
buildShuffleTensor(source, dest, offsets, sizes, strides) ==
    Operation(ShuffleId, "iree_gpu.shuffle_tensor", <<source, dest>>,
              offsets, sizes, strides, <<>>)

\* ValueBarrierOp::build: one operand, and a result of the operand's type.
buildValueBarrier(id, input) == PlainOp(id, "iree_gpu.value_barrier", <<input>>)

InsertId == OpId("tensor.insert_slice", 0)

WriteBarrierId == OpId("iree_gpu.value_barrier", 0)

ReadBarrierId == OpId("iree_gpu.value_barrier", 1)

\* The state of a lowering: the block the shuffle is in, the operations
\* that went into a block that was erased, and how the pattern ended.
ShuffleState(block, erased, status) ==
    [block |-> block, erased |-> erased, status |-> status]

\* LowerShuffleTensor::matchAndRewrite on the shuffle op of block.  The
\* driver's insertion point is in front of the shuffle op.  The yielded
\* value is read before the body is inlined; when it is the body's argument,
\* the inlining erases the block that owns it and the uses of it that follow
\* are uses of a destroyed value: the pattern crashes (freedReadCrashes), or
\* it builds the read barrier on the dead value, in the dead block.
lowerShuffleTensor(block, freedReadCrashes) ==
    LET shufflePos == indexOf(block, ShuffleId)
        shuffleOp == block[shufflePos]
        insertedSlice ==
            Operation(InsertId, "tensor.insert_slice",
                      <<shuffleOp.operands[1], shuffleOp.operands[2]>>,
                      shuffleOp.offsets, shuffleOp.sizes, shuffleOp.strides, <<>>)
        writeBarrier == buildValueBarrier(WriteBarrierId, OpResult(InsertId, 0))
        body == shuffleOp.region
        terminator == body[Len(body)]
        replacement == terminator.operands[1]
        \* inlineBlockBefore(body, shuffleOp, {writeBarrier})
        inlined == replaceAllUsesWith(body, BlockArgument(ShuffleBody, 0),
                                      OpResult(WriteBarrierId, 0))
        emptied == [block EXCEPT ![shufflePos].region = <<>>]
        afterInline == insertBefore(emptied, shufflePos,
                                    <<insertedSlice, writeBarrier>> \o inlined)
        dangling == replacement = BlockArgument(ShuffleBody, 0)
        \* setInsertionPointAfterValue(replacement)
        insertionPoint ==
            IF replacement.def = "result"
            THEN indexOf(afterInline, replacement.of) + 1
            ELSE 1
        barrier == buildValueBarrier(ReadBarrierId, replacement)
        withBarrier == IF dangling THEN afterInline
                       ELSE insertBefore(afterInline, insertionPoint, <<barrier>>)
        redirected == replaceAllUsesWith(withBarrier, OpResult(ShuffleId, 0),
                                         OpResult(ReadBarrierId, 0))
        done == eraseAt(redirected, indexOf(redirected, terminator.id))
    IN  IF dangling /\ freedReadCrashes
        THEN ShuffleState(afterInline, <<>>, "crashed")
        ELSE ShuffleState(done, IF dangling THEN <<barrier>> ELSE <<>>, "success")

\* The shuffles the lowering is applied to.  The block holds the ops that
\* define the source and the dest, the shuffle, and the users of its result.
\* A body op reads the body's argument, an earlier body op or a value of the
\* enclosing block; the terminator yields any of these.
YieldId == OpId("iree_gpu.yield", 0)

OuterValues == {OpResult(OpId("dest", 0), 0), BlockArgument(FuncBlock, 0)}

BodyValues(n) ==
    {BlockArgument(ShuffleBody, 0)} \cup {OpResult(OpId("body", k), 0) : k \in 1..n}

ShuffleBodies ==
    UNION {
        {[k \in 1..(n + 1) |->
            IF k <= n THEN PlainOp(OpId("body", k), "body.op", <<reads[k]>>)
            ELSE PlainOp(YieldId, "iree_gpu.yield", <<yielded>>)] :
          reads \in {r \in SeqsOfLen(BodyValues(n) \cup OuterValues, n) :
                        \A k \in 1..n : r[k] \in BodyValues(k - 1) \cup OuterValues},
          yielded \in BodyValues(n) \cup OuterValues}
        : n \in 0..MaxBodyOps}

SliceEntries == <<IndexAttr(0), ValueEntry(BlockArgument(FuncBlock, 1))>>

ShuffleBlocks ==
    {<<PlainOp(OpId("source", 0), "source.def", <<>>),
       PlainOp(OpId("dest", 0), "dest.def", <<>>),
       [buildShuffleTensor(OpResult(OpId("source", 0), 0), OpResult(OpId("dest", 0), 0),
                           SliceEntries, <<IndexAttr(1), IndexAttr(4)>>,
                           <<IndexAttr(1), IndexAttr(1)>>)
           EXCEPT !.region = body]>>
      \o [k \in 1..users |-> PlainOp(OpId("user", k), "user.op",
                                     <<OpResult(ShuffleId, 0)>>)]
     : body \in ShuffleBodies, users \in 1..MaxUsers}

NoShuffle == ShuffleState(<<>>, <<>>, "none")

----------------------------------------------------------------------------
(* Forall fusion.                                                          *)

MaxWorkers == 2   \* the largest worker count of a loop dimension

ProducerId == OpId("scf.forall", 0)

ConsumerId == OpId("scf.forall", 1)

ProducerBody == OpId("scf.forall.body", 0)

ConsumerBody == OpId("scf.forall.body", 1)

ProducerTerminator == OpId("scf.forall.in_parallel", 0)

ConsumerTerminator == OpId("scf.forall.in_parallel", 1)

SliceId == OpId("tensor.extract_slice", 0)

\* The optional mapping attribute of a loop.
NoMapping == [present |-> FALSE, value |-> <<>>]

Mapping(attrs) == [present |-> TRUE, value |-> attrs]

\* An scf.forall: its static bounds and steps (kDynamic where the entry is a
\* value), its mapping, its outputs (one per result) and, as its region,
\* the operations of its body, the terminator last.
ForallOp(id, lbs, ubs, steps, mapping, outputs, body) ==
    [id |-> id, name |-> "scf.forall", operands |-> outputs, offsets |-> <<>>,
     sizes |-> <<>>, strides |-> <<>>, region |-> body, value |-> <<>>,
     lbs |-> lbs, ubs |-> ubs, steps |-> steps, mapping |-> mapping]

getNumResults(loop) == Len(loop.operands)

isDynamicShape(sizes) == \E i \in 1..Len(sizes) : sizes[i] = kDynamic

\* mlir::ceilDiv for a positive divisor.
ceilDiv(a, b) == 0 - ((0 - a) \div b)

\* getTripCount: failure on a dynamic bound or step, else the product of the
\* trip counts of the dimensions.
getTripCount(loop) ==
    IF isDynamicShape(loop.lbs) \/ isDynamicShape(loop.ubs) \/ isDynamicShape(loop.steps)
    THEN [failed |-> TRUE, value |-> 0]
    ELSE [failed |-> FALSE,
          value |-> Product([i \in 1..Len(loop.ubs) |->
                        ceilDiv(loop.ubs[i] - loop.lbs[i], loop.steps[i])])]

\* The checkMappingTypes lambda, on a mapping that is present.
checkMappingTypes(array) ==
    \/ \A i \in 1..Len(array) : array[i] = "GPUThreadMappingAttr"
    \/ \A i \in 1..Len(array) : array[i] = "GPUWarpMappingAttr"

\* compareWorkerCountsAndTypes.  The mapping attribute is optional; two
\* loops without one compare equal, and checkMappingTypes then reads the
\* elements of a null ArrayAttr.
compareWorkerCountsAndTypes(producer, consumer) ==
    LET producerTripCount == getTripCount(producer)
        consumerTripCount == getTripCount(consumer)
    IN  IF \/ producerTripCount.failed
           \/ consumerTripCount.failed
           \/ producerTripCount.value # consumerTripCount.value
        THEN "failure"
        ELSE IF producer.mapping # consumer.mapping THEN "failure"
        ELSE IF ~producer.mapping.present THEN "crashed"
        ELSE IF ~checkMappingTypes(producer.mapping.value) THEN "failure"
        ELSE IF ~checkMappingTypes(consumer.mapping.value) THEN "failure"
        ELSE "success"

\* The isAll lambda of fuseForallIntoSlice.
isAll(array, cmp) == \A i \in 1..Len(array) : array[i] = cmp

\* Step 1 of the fusion: the consumer's ids folded into one linear id (an
\* affine.apply per dimension after the first, each composed over the ids
\* so far), a constant per producer worker count, and the delinearization
\* of the linear id over these.
linearizeOps(consumer) ==
    [k \in 1..(Len(consumer.ubs) - 1) |->
        AttrOp(OpId("affine.apply", k), "affine.apply",
               [i \in 1..(k + 1) |-> BlockArgument(ConsumerBody, i - 1)],
               SubSeq(consumer.ubs, 2, k + 1))]

linearId(consumer) ==
    IF Len(consumer.ubs) = 1 THEN BlockArgument(ConsumerBody, 0)
    ELSE OpResult(OpId("affine.apply", Len(consumer.ubs) - 1), 0)

rangeOps(producer) ==
    [k \in 1..Len(producer.ubs) |->
        AttrOp(OpId("arith.constant", k), "arith.constant", <<>>, <<producer.ubs[k]>>)]

DelinearizeId == OpId("affine.delinearize_index", 0)

delinearizeOp(producer, consumer) ==
    PlainOp(DelinearizeId, "affine.delinearize_index",
            <<linearId(consumer)>>
                \o [k \in 1..Len(producer.ubs) |-> OpResult(OpId("arith.constant", k), 0)])

\* AffineExpr mulAdd = d0 * d1 + d2
mulAdd(d0, d1, d2) == d0 * d1 + d2

\* The value of an affine.apply of linearizeOps at the values ids of its
\* operands: mulAdd folded over the ids from 0, with the op's worker counts
\* (the first step, 0 * count + id, is the first id).
RECURSIVE applyValue(_, _)
applyValue(counts, ids) ==
    IF counts = <<>> THEN ids[1]
    ELSE mulAdd(applyValue(SubSeq(counts, 1, Len(counts) - 1),
                           SubSeq(ids, 1, Len(ids) - 1)),
                counts[Len(counts)], ids[Len(ids)])

\* A delinearization that takes the basis innermost first.
delinearizeInnermostFirst(linearIndex, basis) ==
    [j \in 1..Len(basis) |->
        LET stride == Product(SubSeq(basis, 1, j - 1))
        IN  IF j = Len(basis) THEN linearIndex \div stride
            ELSE (linearIndex \div stride) % basis[j]]

\* The results of affine.delinearize_index: the linear index is divided by
\* the product of the basis entries after the first, and each remainder by
\* the product of the entries that follow, the last remainder being the
\* last result.
delinearizeIndex(linearIndex, basis) ==
    [j \in 1..Len(basis) |->
        LET stride == Product(SubSeq(basis, j + 1, Len(basis)))
        IN  IF j = 1 THEN linearIndex \div stride
            ELSE (linearIndex \div stride) % basis[j]]

\* A splice that leaves the block arguments in place.
keepBlockArguments(block, owner, replacements) == block

\* The body of the producer with its block arguments replaced: the
\* induction variables by the delinearized ids, the output arguments by the
\* producer's outputs.
RECURSIVE replaceBlockArguments(_, _, _)
replaceBlockArguments(block, owner, replacements) ==
    IF replacements = <<>> THEN block
    ELSE LET index == Len(replacements) - 1
         IN  replaceBlockArguments(
                 replaceAllUsesWith(block, BlockArgument(owner, index),
                                    replacements[Len(replacements)]),
                 owner, SubSeq(replacements, 1, index))

\* What a call of the fusion did: the function's block afterwards and the
\* call's result ("failure", "success", or "crashed" when it did not return).
FuseState(func, status) == [func |-> func, status |-> status]

\* replaceConsumerChain, on the consumer's body: the shuffle is created at
\* position at, the chain moves into its region in front of the yield, the
\* first chain op reads the region's argument instead of source, and every
\* other use of the slice's result becomes a use of the shuffle's.
replaceConsumerChain(body, at, source, parallelInsert, consumerChain) ==
    LET extractSlice == body[indexOf(body, consumerChain[Len(consumerChain)])]
        terminator == PlainOp(YieldId, "iree_gpu.yield", <<OpResult(extractSlice.id, 0)>>)
        moved == [k \in 1..Len(consumerChain) |->
                    LET consumer == body[indexOf(body, consumerChain[k])]
                    IN  IF k = 1
                        THEN replaceUsesOfWith(consumer, source,
                                               BlockArgument(ShuffleBody, 0))
                        ELSE consumer]
        shuffleOp ==
            [buildShuffleTensor(parallelInsert.operands[1], parallelInsert.operands[2],
                                parallelInsert.offsets, parallelInsert.sizes,
                                parallelInsert.strides)
                EXCEPT !.region = <<>>]
        withShuffle == insertBefore(body, at, <<shuffleOp>>)
        kept == SelectSeq(withShuffle,
                          LAMBDA o : \A k \in 1..Len(consumerChain) : o.id # consumerChain[k])
        rewired == [k \in 1..Len(kept) |->
                      LET o == replaceUsesOfWith(kept[k], OpResult(extractSlice.id, 0),
                                                 OpResult(ShuffleId, 0))
                      IN  IF o.id = ShuffleId
                          THEN [o EXCEPT !.region =
                                  [j \in 1..Len(moved) |->
                                      replaceUsesOfWith(moved[j], OpResult(extractSlice.id, 0),
                                                        OpResult(ShuffleId, 0))]
                                  \o <<terminator>>]
                          ELSE o]
    IN  rewired

\* fuseForallIntoSlice(rewriter, producer, consumer, consumerChain) on the
\* loops of func; consumerChain holds the ids of operations of the
\* consumer's body.
fuseForallIntoSlice(func, consumerChain) ==
    LET producer == func[indexOf(func, ProducerId)]
        consumer == func[indexOf(func, ConsumerId)]
        body == consumer.region
        compared == compareWorkerCountsAndTypes(producer, consumer)
        slicePos == indexOf(body, consumerChain[Len(consumerChain)])
        \* Step 1
        created == linearizeOps(consumer) \o rangeOps(producer)
                       \o <<delinearizeOp(producer, consumer)>>
        newIds == [k \in 1..Len(producer.ubs) |-> OpResult(DelinearizeId, k - 1)]
        \* Step 2
        bbArgReplacements == newIds \o producer.operands
        inlined == replaceBlockArguments(producer.region, ProducerBody, bbArgReplacements)
        afterInline == insertBefore(body, slicePos, created \o inlined)
        emptied == [func EXCEPT ![indexOf(func, ProducerId)].region = <<>>,
                                ![indexOf(func, ConsumerId)].region = afterInline]
        terminator == inlined[Len(inlined)]
        terminatorPos == indexOf(afterInline, terminator.id)
        parallelInsert == terminator.region[1]
        replaced == replaceConsumerChain(afterInline, terminatorPos + 1,
                                         OpResult(ProducerId, 0), parallelInsert,
                                         consumerChain)
        \* eraseOp(parallelInsert); eraseOp(terminator); eraseOp(producer)
        erased == eraseAt(replaced, indexOf(replaced, terminator.id))
        rewritten == [emptied EXCEPT ![indexOf(func, ConsumerId)].region = erased]
    IN  IF consumerChain = <<>> THEN FuseState(func, "failure")
        ELSE IF body[slicePos].name # "tensor.extract_slice" THEN FuseState(func, "failure")
        ELSE IF getNumResults(producer) # 1 THEN FuseState(func, "failure")
        ELSE IF compared = "crashed" THEN FuseState(func, "crashed")
        ELSE IF compared = "failure" THEN FuseState(func, "failure")
        ELSE IF \/ ~isAll(producer.steps, 1)
                \/ ~isAll(producer.lbs, 0)
                \/ ~isAll(consumer.steps, 1)
                \/ ~isAll(consumer.lbs, 0)
            THEN FuseState(func, "failure")
        \* *terminator.getYieldingOps().begin() of an empty terminator
        ELSE IF terminator.region = <<>> THEN FuseState(emptied, "crashed")
        ELSE FuseState(eraseAt(rewritten, indexOf(rewritten, ProducerId)), "success")

\* The loops the fusion is called on.  The function's block holds the ops
\* defining the producer's outputs, the producer and the consumer.  The
\* producer's body computes a value from its first id and, in its
\* terminator, inserts it into its first output at its last id; the
\* consumer's body holds the chain from the producer's result to the slice,
\* a user of the slice, and the terminator.
LoopRanks == {1, 2}

InsertCounts == {1, 2}

MappingAttrs == {"GPUThreadMappingAttr", "GPUWarpMappingAttr", "GPUBlockMappingAttr"}

LoopShapes == UNION {SeqsOfLen(1..MaxWorkers, r) : r \in LoopRanks}

\* No mapping, all threads, all warps, or a last dimension mapped to blocks.
MappingsOf(rank) ==
    {NoMapping}
        \cup {Mapping([i \in 1..rank |-> a]) : a \in MappingAttrs}
        \cup {Mapping([i \in 1..rank |->
                          IF i = rank THEN "GPUBlockMappingAttr" ELSE a]) :
                a \in MappingAttrs}

parallelInsertSlice(k, rank) ==
    Operation(OpId("tensor.parallel_insert_slice", k), "tensor.parallel_insert_slice",
              <<OpResult(OpId("producer.op", 0), 0), BlockArgument(ProducerBody, rank)>>,
              <<ValueEntry(BlockArgument(ProducerBody, rank - 1))>>,
              <<IndexAttr(k)>>, <<IndexAttr(1)>>, <<>>)

ProducerOf(ubs, mapping, numResults, inserts) ==
    ForallOp(ProducerId, Zeros(Len(ubs)), ubs, Ones(Len(ubs)), mapping,
             [k \in 1..numResults |-> OpResult(OpId("out", k), 0)],
             <<PlainOp(OpId("producer.op", 0), "producer.op",
                       <<BlockArgument(ProducerBody, 0)>>),
               [PlainOp(ProducerTerminator, "scf.forall.in_parallel", <<>>)
                   EXCEPT !.region = [k \in 1..inserts |->
                                         parallelInsertSlice(k, Len(ubs))]]>>)

ExpandId == OpId("tensor.expand_shape", 0)

ConsumerOf(ubs, mapping, expands) ==
    ForallOp(ConsumerId, Zeros(Len(ubs)), ubs, Ones(Len(ubs)), mapping, <<>>,
             (IF expands
              THEN <<PlainOp(ExpandId, "tensor.expand_shape", <<OpResult(ProducerId, 0)>>),
                     Operation(SliceId, "tensor.extract_slice", <<OpResult(ExpandId, 0)>>,
                               <<ValueEntry(BlockArgument(ConsumerBody, 0))>>,
                               <<IndexAttr(1)>>, <<IndexAttr(1)>>, <<>>)>>
              ELSE <<Operation(SliceId, "tensor.extract_slice", <<OpResult(ProducerId, 0)>>,
                               <<ValueEntry(BlockArgument(ConsumerBody, 0))>>,
                               <<IndexAttr(1)>>, <<IndexAttr(1)>>, <<>>)>>)
                 \o <<PlainOp(OpId("user", 1), "user.op", <<OpResult(SliceId, 0)>>),
                      PlainOp(ConsumerTerminator, "scf.forall.in_parallel", <<>>)>>)

FuncOf(producer, consumer) ==
    [k \in 1..getNumResults(producer) |-> PlainOp(OpId("out", k), "out.def", <<>>)]
        \o <<producer, consumer>>

FuseInput(func, consumerChain) == [func |-> func, consumerChain |-> consumerChain]

\* Loops with static zero lower bounds and unit steps, one result, and the
\* whole chain passed.
Loops ==
    UNION {{[ubs |-> ubs, mapping |-> mapping] : mapping \in MappingsOf(Len(ubs))} :
             ubs \in LoopShapes}

PlainFuseInput(p, c, expands, inserts) ==
    FuseInput(FuncOf(ProducerOf(p.ubs, p.mapping, 1, inserts),
                     ConsumerOf(c.ubs, c.mapping, expands)),
              IF expands THEN <<ExpandId, SliceId>> ELSE <<SliceId>>)

PlainFuseInputs ==
    {PlainFuseInput(p, c, expands, inserts) :
        p \in Loops, c \in Loops, expands \in BOOLEAN, inserts \in InsertCounts}

\* The inputs of which the departures are taken.
DepartingFuseInputs == {PlainFuseInput(p, c, TRUE, 1) : p \in Loops, c \in Loops}

\* One departure of input from the above: a chain that is empty or does not
\* end in the slice, a second result, a terminator that inserts nothing, or
\* one bound or step of one loop that is dynamic, a lower bound of 1 or a
\* step of 2.
Departures(input) ==
    LET func == input.func
        p == indexOf(func, ProducerId)
        c == indexOf(func, ConsumerId)
        producer == func[p]
        consumer == func[c]
        ofLoop(l) ==
            UNION {
                {[func EXCEPT ![l].lbs[d] = v] : v \in {1, kDynamic}}
                \cup {[func EXCEPT ![l].steps[d] = v] : v \in {2, kDynamic}}
                \cup {[func EXCEPT ![l].ubs[d] = kDynamic]}
                : d \in 1..Len(func[l].ubs)}
    IN  {FuseInput(func, <<>>), FuseInput(func, <<input.consumerChain[1]>>)}
        \cup {FuseInput(
                 FuncOf([producer EXCEPT
                            !.operands = <<OpResult(OpId("out", 1), 0),
                                           OpResult(OpId("out", 2), 0)>>],
                        consumer),
                 input.consumerChain)}
        \cup {FuseInput([func EXCEPT ![p].region[2].region = <<>>], input.consumerChain)}
        \cup {FuseInput(f, input.consumerChain) : f \in ofLoop(p) \cup ofLoop(c)}

NoFuseInput == FuseInput(<<>>, <<>>)

NoFusion == FuseState(<<>>, "none")

----------------------------------------------------------------------------
(* Lowering to the intrinsic (LowerMultiMmaPattern) and unit-dimension     *)
(* folding (DropMultiMmaUnitDimsPattern).                                  *)

\* AffineMap::inferFromExprList: one map per expression list, all of them
\* with one more input dimension than the largest dimension position any
\* list mentions (none: no input dimension), and no symbol.
inferFromExprList(exprsList) ==
    LET positions == UNION {{exprsList[m][i].position : i \in 1..Len(exprsList[m])} :
                               m \in 1..Len(exprsList)}
        numDims == IF positions = {} THEN 0
                   ELSE (CHOOSE p \in positions : \A q \in positions : q <= p) + 1
    IN  [m \in 1..Len(exprsList) |-> AffineMapOf(numDims, 0, exprsList[m])]

\* MultiMmaOp::build from expression lists.
buildFromExprs(lhs, rhs, acc, indexingExprs, iteratorTypes, kind, tensorSemantics) ==
    build(lhs, rhs, acc, inferFromExprList(indexingExprs), iteratorTypes, kind,
          tensorSemantics)

\* The native vector types of the kind's A, B and C operands.
getABCVectorTypes(kind) ==
    <<ShapedTypeOf(<<4>>, kind.a), ShapedTypeOf(<<4>>, kind.b),
      ShapedTypeOf(<<4>>, kind.c)>>

\* The number of leading (iterated) dimensions of each operand: the number
\* of results of its indexing map.
getLhsOuterRank(o) == Len(o.indexingMaps[1].results)
getRhsOuterRank(o) == Len(o.indexingMaps[2].results)
getAccOuterRank(o) == Len(o.indexingMaps[3].results)

\* What one application of a MultiMma pattern did: its status, the reason of
\* a match failure, the operations it created in creation order, and the
\* value the op was replaced with (NoValue: the op and its uses are as they
\* were).
PatternOutcome(status, reason, created, replacement) ==
    [status |-> status, reason |-> reason, created |-> created,
     replacement |-> replacement]

notifyMatchFailure(reason) == PatternOutcome("failure", reason, <<>>, NoValue)

\* A typed value and the operations created so far.
Cast(created, value, type) == [created |-> created, value |-> value, type |-> type]

\* A cast that is created whether or not the types differ.
shapeCastAlways(created, value, valueType, vectorType) ==
    Cast(Append(created, CreatedOp("vector.shape_cast", <<value>>, <<>>, vectorType,
                                   NoAttrs, <<>>)),
         ResultValue(Len(created) + 1), vectorType)

\* if (cast.getType() != vectorType) cast = create<vector::ShapeCastOp>(...)
shapeCastUnlessSame(created, value, valueType, vectorType) ==
    IF valueType # vectorType
    THEN Cast(Append(created, CreatedOp("vector.shape_cast", <<value>>, <<>>,
                                        vectorType, NoAttrs, <<>>)),
              ResultValue(Len(created) + 1), vectorType)
    ELSE Cast(created, value, valueType)

\* MmaInterfaceAttr::buildMmaOperation: the intrinsic on operands of the
\* kind's native types, with the given result type; it fails on operands or
\* a result of other types.
buildMmaOperation(kind, created, resultType, a, b, c) ==
    IF <<a.type, b.type, c.type>> = getABCVectorTypes(kind)
       /\ resultType = getABCVectorTypes(kind)[3]
    THEN [succeeded |-> TRUE,
          created |-> Append(created, CreatedOp("amdgpu.mfma",
                                                <<a.value, b.value, c.value>>, <<>>,
                                                resultType, NoAttrs, <<>>)),
          value |-> ResultValue(Len(created) + 1)]
    ELSE [succeeded |-> FALSE, created |-> created, value |-> NoValue]

\* A test that lets the ops of unit bounds through as well.
mustBeSingleMmaUnlessUnit(bounds) == \E i \in 1..Len(bounds) : bounds[i] # 1

\* !bounds.empty(): the op is not a single mma operation.
mustBeSingleMma(bounds) == bounds # <<>>

\* LowerMultiMmaPattern::matchAndRewrite on op o; junk: what a failing lookup
\* of getIterationBounds reads.
matchAndRewriteLower(o, junk) ==
    LET bounds == getIterationBounds(o, FALSE, junk).bounds
        types == getABCVectorTypes(o.kind)
        aCast == shapeCastUnlessSame(<<>>, OperandValue(0), getLhsType(o), types[1])
        bCast == shapeCastUnlessSame(aCast.created, OperandValue(1), getRhsType(o),
                                     types[2])
        cCast == shapeCastUnlessSame(bCast.created, OperandValue(2), getAccType(o),
                                     types[3])
        concreteMmaOp == buildMmaOperation(o.kind, cCast.created, cCast.type,
                                           aCast, bCast, cCast)
        result == CreatedOp("vector.shape_cast", <<concreteMmaOp.value>>, <<>>,
                            getAccType(o), NoAttrs, <<>>)
    IN  IF hasTensorSemantics(o)
        THEN notifyMatchFailure("lowering to concrete op requires vector semantics")
        ELSE IF mustBeSingleMma(bounds)
            THEN notifyMatchFailure("must be a single mma operation")
        ELSE IF ~concreteMmaOp.succeeded
            \* assert(succeeded(concreteMmaOp)), or the read of a failure's value
            THEN PatternOutcome("crashed", "", concreteMmaOp.created, NoValue)
        ELSE PatternOutcome("success", "", Append(concreteMmaOp.created, result),
                            ResultValue(Len(concreteMmaOp.created) + 1))

\* A folding that drops one leading dimension whatever the outer rank is.
dropOneLeadDim(created, operand, type, numDims) ==
    Cast(Append(created, CreatedOp("vector.extract", <<operand>>, Zeros(1),
                                   ShapedTypeOf(Tail(type.shape), type.elementType),
                                   NoAttrs, <<>>)),
         ResultValue(Len(created) + 1),
         ShapedTypeOf(Tail(type.shape), type.elementType))

\* The dropLeadUnitDims lambda: the operand itself when numDims is 0, and
\* otherwise a vector.extract at numDims zero positions, whose type is the
\* operand's without its numDims leading dimensions.
dropLeadUnitDims(created, operand, type, numDims) ==
    LET dropped == ShapedTypeOf(SubSeq(type.shape, numDims + 1, Len(type.shape)),
                                type.elementType)
    IN  IF numDims = 0 THEN Cast(created, operand, type)
        ELSE Cast(Append(created, CreatedOp("vector.extract", <<operand>>,
                                            Zeros(numDims), dropped, NoAttrs, <<>>)),
                  ResultValue(Len(created) + 1), dropped)

\* A folding that also takes the ops that have no iteration dimension.
noDimensionsToFoldNever(bounds) == FALSE

\* bounds.empty()
noDimensionsToFold(bounds) == bounds = <<>>

\* DropMultiMmaUnitDimsPattern::matchAndRewrite on op o; junk: what a
\* failing lookup of getIterationBounds reads.
matchAndRewriteDrop(o, junk) ==
    LET bounds == getIterationBounds(o, FALSE, junk).bounds
        newLhs == dropLeadUnitDims(<<>>, OperandValue(0), getLhsType(o),
                                   getLhsOuterRank(o))
        newRhs == dropLeadUnitDims(newLhs.created, OperandValue(1), getRhsType(o),
                                   getRhsOuterRank(o))
        newAcc == dropLeadUnitDims(newRhs.created, OperandValue(2), getAccType(o),
                                   getAccOuterRank(o))
        empty == AffineMapOf(0, 0, <<>>)
        newMmaOp == CreatedOp("iree_gpu.multi_mma",
                              <<newLhs.value, newRhs.value, newAcc.value>>, <<>>,
                              buildResultType(newAcc.type),
                              [indexingMaps |-> <<empty, empty, empty>>,
                               iteratorTypes |-> <<>>, kind |-> o.kind.name],
                              <<>>)
        broadcast == CreatedOp("vector.broadcast",
                               <<ResultValue(Len(newAcc.created) + 1)>>, <<>>,
                               getResultType(o), NoAttrs, <<>>)
    IN  IF hasTensorSemantics(o)
        THEN notifyMatchFailure("unimplemented: unit dim dropping for tensor mma ops")
        ELSE IF noDimensionsToFold(bounds)
            THEN notifyMatchFailure("no dimensions to fold")
        ELSE IF ~(\A i \in 1..Len(bounds) : bounds[i] = 1)
            THEN notifyMatchFailure("not all iteration bounds are unit")
        ELSE PatternOutcome("success", "", newAcc.created \o <<newMmaOp, broadcast>>,
                            ResultValue(Len(newAcc.created) + 2))

\* The build calls the patterns' ops come from: ops over zero, one or two
\* iteration dimensions, built from maps or from expression lists.  An op
\* without iteration dimension has operands of the native element count in
\* one or in two dimensions.
PatternRanks == {0, 1, 2}

NativeShapes == {<<4>>, <<2, 2>>}

ResultListsOf(n) ==
    {r \in UNION {SeqsOfLen({getAffineDimExpr(d) : d \in 0..(n - 1)}, k) : k \in 0..n} :
        \A i, j \in 1..Len(r) : i # j => r[i] # r[j]}

TypeOf(results, extents, inner, elementType) ==
    ShapedTypeOf([i \in 1..Len(results) |-> extents[results[i].position + 1]] \o inner,
                 elementType)

BuildCall(overload, lhs, rhs, acc, indexing, iteratorTypes, kind, tensorSemantics) ==
    [overload |-> overload, lhs |-> lhs, rhs |-> rhs, acc |-> acc,
     indexing |-> indexing, iteratorTypes |-> iteratorTypes, kind |-> kind,
     tensor |-> tensorSemantics]

BuildCallsOf(n) ==
    {BuildCall(overload, TypeOf(rl, b, inner[1], k.a), TypeOf(rr, b, inner[2], k.b),
               TypeOf(ra, b, inner[3], k.c),
               IF overload = "maps"
               THEN <<AffineMapOf(n, 0, rl), AffineMapOf(n, 0, rr), AffineMapOf(n, 0, ra)>>
               ELSE <<rl, rr, ra>>,
               its, k, sem) :
        overload \in {"maps", "exprs"},
        rl \in ResultListsOf(n), rr \in ResultListsOf(n), ra \in ResultListsOf(n),
        its \in SeqsOfLen(IteratorKinds, n),
        b \in SeqsOfLen(1..MaxExtent, n),
        inner \in IF n = 0 THEN SeqsOfLen(NativeShapes, 3)
                   ELSE {<<InnerShape, InnerShape, InnerShape>>},
        k \in MmaKinds, sem \in BOOLEAN}

NoBuildCall ==
    BuildCall("none", ShapedTypeOf(<<>>, "f16"), ShapedTypeOf(<<>>, "f16"),
              ShapedTypeOf(<<>>, "f32"), <<>>, <<>>, CHOOSE k \in MmaKinds : TRUE, FALSE)

MmaRewrite(pattern, junk, outcome) ==
    [pattern |-> pattern, junk |-> junk, outcome |-> outcome]

NoMmaRewrite == MmaRewrite("none", 1, PatternOutcome("none", "", <<>>, NoValue))

----------------------------------------------------------------------------
(* ValueBarrierOp and its lowering (LowerValueBarrierPattern).             *)

\* A tensor or a vector type.
ContainerType(tensor, shape, elementType) ==
    [tensor |-> tensor, shape |-> shape, elementType |-> elementType]

\* result.addTypes(input.getType())
valueBarrierResultType(inputType) == inputType

\* A typed block: its operations, and the type of the result of each
\* operation that has one.
TypedBlock(block, types) == [block |-> block, types |-> types]

getType(typed, value) == typed.types[value.of]

\* ValueBarrierOp::build into a typed block, at the block's end.
createValueBarrier(typed, id, input) ==
    TypedBlock(Append(typed.block, buildValueBarrier(id, input)),
               [i \in DOMAIN typed.types \cup {id} |->
                   IF i = id THEN valueBarrierResultType(getType(typed, input))
                   ELSE typed.types[i]])

GpuBarrierId == OpId("gpu.barrier", 0)

BarrierState(typed, status, barrier) ==
    [typed |-> typed, status |-> status, barrier |-> barrier]

\* A replacement of the barrier's uses by the barrier's own result, which
\* leaves every use where it was.
replaceOpWithItself(block, id, replacement) == block

\* rewriter.replaceOp(op, replacement): every use of the op's result becomes
\* a use of replacement, and the op is erased.
replaceOp(block, id, replacement) ==
    LET replaced == replaceAllUsesWith(block, OpResult(id, 0), replacement)
    IN  eraseAt(replaced, indexOf(replaced, id))

\* ValueBarrierOp::hasTensorSemantics: the barrier's input is a tensor.
barrierHasTensorSemantics(typed, barrier) == getType(typed, barrier.operands[1]).tensor

\* LowerValueBarrierPattern::matchAndRewrite on the barrier id of the typed
\* block.  The driver's insertion point is in front of the barrier.
lowerValueBarrier(typed, id) ==
    LET position == indexOf(typed.block, id)
        barrier == typed.block[position]
        input == barrier.operands[1]
        withBarrier == insertBefore(typed.block, position,
                                    <<PlainOp(GpuBarrierId, "gpu.barrier", <<>>)>>)
        rewritten == replaceOp(withBarrier, id, input)
    IN  IF barrierHasTensorSemantics(typed, barrier)
        THEN BarrierState(typed, "failure", id)
        ELSE BarrierState(TypedBlock(rewritten,
                                     [i \in {rewritten[k].id : k \in 1..Len(rewritten)}
                                            \cap DOMAIN typed.types |-> typed.types[i]]),
                          "success", id)

\* The blocks the lowering is applied to: a definition, one barrier on it
\* or two in a chain, and users that read the definition or a barrier.
BarrierId(n) == OpId("iree_gpu.value_barrier", n)

BarrierChains == {1, 2}

ContainerTypes ==
    {ContainerType(tensor, shape, "f32") :
        tensor \in BOOLEAN, shape \in {<<4>>, <<2, 4>>}}

BarrierBlocks ==
    UNION {
        LET defined == TypedBlock(<<PlainOp(OpId("input", 0), "input.def", <<>>)>>,
                                  [i \in {OpId("input", 0)} |-> type])
            first == createValueBarrier(defined, BarrierId(0),
                                        OpResult(OpId("input", 0), 0))
            chain == IF chains = 1 THEN first
                     ELSE createValueBarrier(first, BarrierId(1),
                                             OpResult(BarrierId(0), 0))
            values == {OpResult(OpId("input", 0), 0)}
                      \cup {OpResult(BarrierId(k), 0) : k \in 0..(chains - 1)}
        IN  {TypedBlock(chain.block \o [k \in 1..Len(reads) |->
                                          PlainOp(OpId("user", k), "user.op", <<reads[k]>>)],
                        chain.types) :
               reads \in UNION {SeqsOfLen(values, users) : users \in 0..MaxUsers}}
        : type \in ContainerTypes, chains \in BarrierChains}

NoBarrierBlock == TypedBlock(<<>>, <<>>)

NoBarrier == BarrierState(NoBarrierBlock, "none", BarrierId(0))

----------------------------------------------------------------------------
(* The MultiMma flow: build, verify, then the queries and patterns that    *)
(* run on verified ops.                                                    *)

NoUnroll == UnrollOutcome("none", "", <<>>, <<>>, NoValue)

NoCall == UnrollCall(TRUE, NoNativeShape, <<>>, 1)

\* No shuffle is being lowered and no loops are being fused.
NoRewrites ==
    /\ shuffleBlock = <<>>
    /\ lowered = NoShuffle
    /\ fuseInput = NoFuseInput
    /\ fused = NoFusion

\* No rewrite driver is running.
NoDriver ==
    /\ nativeShape = NoNativeShape
    /\ oddRewrites = FALSE

\* No op is being built or lowered and no barrier is being lowered.
NoPatterns ==
    /\ buildArgs = NoBuildCall
    /\ mmaRewrite = NoMmaRewrite
    /\ barrierBlock = NoBarrierBlock
    /\ barrierLowered = NoBarrier
    /\ NoDriver

Init ==
    /\ \E o \in WellFormedOps : op \in {o} \cup Defects(o)
    /\ pc = "built"
    /\ verifyResult = ""
    /\ derived = <<>>
    /\ unrollCall = NoCall
    /\ unroll = NoUnroll
    /\ NoRewrites
    /\ NoPatterns

\* MultiMmaOp::verify runs on the built op; the call of getIterationBounds it
\* makes once the structure is accepted is logged in derived.
Verify ==
    /\ pc = "built"
    /\ \E asserts \in BOOLEAN, junk \in JunkReads :
          /\ verifyResult' = verify(op, asserts, junk)
          /\ derived' = IF verifyStructure(op) = ""
                        THEN <<getIterationBounds(op, asserts, junk)>>
                        ELSE <<>>
          /\ pc' = IF verifyResult' = "success" THEN "verified"
                   ELSE IF verifyResult' = "aborted" THEN "aborted"
                   ELSE "rejected"
    /\ UNCHANGED <<op, unrollCall, unroll, shuffleVars, fuseVars, patternVars,
                   barrierVars, driverVars>>

\* A client derives the iteration bounds of the verified op (at most twice
\* after verify's own derivation).
\* A verified op with a failing lookup exists only where assertions are
\* compiled out (verify aborts on it otherwise), so the lookup reads junk.
GetIterationBounds ==
    /\ pc = "verified"
    /\ unroll.status = "none"
    /\ Len(derived) < 3
    /\ \E junk \in JunkReads :
          derived' = Append(derived, getIterationBounds(op, FALSE, junk))
    /\ UNCHANGED <<op, pc, verifyResult, unrollCall, unroll, shuffleVars, fuseVars, patternVars,
                   barrierVars, driverVars>>

\* The rewrite driver applies the unroll pattern to the verified op.
Unroll ==
    /\ pc = "verified"
    /\ unroll.status = "none"
    /\ Len(derived) = 1
    /\ \E call \in UnrollCalls(op) :
          /\ unrollCall' = call
          /\ unroll' = matchAndRewriteUnroll(op, call.filterOk, call.native,
                                             call.loopOrder, call.junk)
    /\ pc' = IF unroll'.status = "success" THEN "unrolled"
             ELSE IF unroll'.status = "crashed" THEN "aborted"
             ELSE "verified"
    /\ UNCHANGED <<op, verifyResult, derived, shuffleVars, fuseVars, patternVars,
                   barrierVars, driverVars>>

Next ==
    \/ Verify
    \/ GetIterationBounds
    \/ Unroll

Spec == Init /\ [][Next]_vars

----------------------------------------------------------------------------
(* The rewrites of shuffles and loops.                                     *)

\* No MultiMma op is under study.
NoMultiMma ==
    /\ op = build(ShapedTypeOf(<<>>, "f16"), ShapedTypeOf(<<>>, "f16"),
                  ShapedTypeOf(<<>>, "f32"), <<>>, <<>>, CHOOSE k \in MmaKinds : TRUE,
                  FALSE)
    /\ pc = "none"
    /\ verifyResult = ""
    /\ derived = <<>>
    /\ unrollCall = NoCall
    /\ unroll = NoUnroll

InitShuffle ==
    /\ NoMultiMma
    /\ shuffleBlock \in ShuffleBlocks
    /\ lowered = NoShuffle
    /\ fuseInput = NoFuseInput
    /\ fused = NoFusion
    /\ NoPatterns

\* The rewrite driver applies LowerShuffleTensor to the shuffle.
LowerShuffle ==
    /\ lowered.status = "none"
    /\ \E freedReadCrashes \in BOOLEAN :
          lowered' = lowerShuffleTensor(shuffleBlock, freedReadCrashes)
    /\ UNCHANGED <<mmaVars, shuffleBlock, fuseVars, patternVars, barrierVars, driverVars>>

NextShuffle == LowerShuffle

SpecShuffle == InitShuffle /\ [][NextShuffle]_vars

InitFuse ==
    /\ NoMultiMma
    /\ shuffleBlock = <<>>
    /\ lowered = NoShuffle
    /\ \/ fuseInput \in PlainFuseInputs
       \/ \E input \in DepartingFuseInputs : fuseInput \in Departures(input)
    /\ fused = NoFusion
    /\ NoPatterns

\* A pass calls fuseForallIntoSlice on the loops.
Fuse ==
    /\ fused.status = "none"
    /\ fused' = fuseForallIntoSlice(fuseInput.func, fuseInput.consumerChain)
    /\ UNCHANGED <<mmaVars, shuffleVars, fuseInput, patternVars, barrierVars, driverVars>>

NextFuse == Fuse

SpecFuse == InitFuse /\ [][NextFuse]_vars

----------------------------------------------------------------------------
(* The MultiMma patterns: an op is built and verified, then the rewrite    *)
(* driver applies the lowering or the unit-dimension folding to it.        *)

\* The op variable before the op is built.
NoOp ==
    build(ShapedTypeOf(<<>>, "f16"), ShapedTypeOf(<<>>, "f16"), ShapedTypeOf(<<>>, "f32"),
          <<>>, <<>>, CHOOSE k \in MmaKinds : TRUE, FALSE)

InitLower ==
    /\ \E n \in PatternRanks : buildArgs \in BuildCallsOf(n)
    /\ op = NoOp
    /\ pc = "unbuilt"
    /\ verifyResult = ""
    /\ derived = <<>>
    /\ unrollCall = NoCall
    /\ unroll = NoUnroll
    /\ mmaRewrite = NoMmaRewrite
    /\ NoRewrites
    /\ barrierBlock = NoBarrierBlock
    /\ barrierLowered = NoBarrier
    /\ NoDriver

\* A client builds the op with one of the two builders.
Build ==
    /\ pc = "unbuilt"
    /\ op' = IF buildArgs.overload = "maps"
             THEN build(buildArgs.lhs, buildArgs.rhs, buildArgs.acc, buildArgs.indexing,
                        buildArgs.iteratorTypes, buildArgs.kind, buildArgs.tensor)
             ELSE buildFromExprs(buildArgs.lhs, buildArgs.rhs, buildArgs.acc,
                                 buildArgs.indexing, buildArgs.iteratorTypes,
                                 buildArgs.kind, buildArgs.tensor)
    /\ pc' = "built"
    /\ UNCHANGED <<verifyResult, derived, unrollCall, unroll, shuffleVars, fuseVars,
                   buildArgs, mmaRewrite, barrierVars, driverVars>>

\* The values a failing lookup of the verified op's bounds may read.
JunkReadsOf(o) == IF allBoundsFound(o) THEN {1} ELSE JunkReads

\* The rewrite driver applies LowerMultiMmaPattern to the verified op.
LowerMultiMma ==
    /\ pc = "verified"
    /\ mmaRewrite.pattern = "none"
    /\ \E junk \in JunkReadsOf(op) :
          mmaRewrite' = MmaRewrite("lower", junk, matchAndRewriteLower(op, junk))
    /\ UNCHANGED <<mmaVars, shuffleVars, fuseVars, buildArgs, barrierVars, driverVars>>

\* The rewrite driver applies DropMultiMmaUnitDimsPattern to the verified op.
DropUnitDims ==
    /\ pc = "verified"
    /\ mmaRewrite.pattern = "none"
    /\ \E junk \in JunkReadsOf(op) :
          mmaRewrite' = MmaRewrite("drop", junk, matchAndRewriteDrop(op, junk))
    /\ UNCHANGED <<mmaVars, shuffleVars, fuseVars, buildArgs, barrierVars, driverVars>>

NextLower ==
    \/ Build
    \/ Verify
    \/ LowerMultiMma
    \/ DropUnitDims

SpecLower == InitLower /\ [][NextLower]_vars

----------------------------------------------------------------------------
(* The lowering of value barriers.                                         *)

InitBarrier ==
    /\ NoMultiMma
    /\ NoRewrites
    /\ buildArgs = NoBuildCall
    /\ mmaRewrite = NoMmaRewrite
    /\ barrierBlock \in BarrierBlocks
    /\ barrierLowered = NoBarrier
    /\ NoDriver

\* The rewrite driver applies LowerValueBarrierPattern to a barrier of the
\* block.
LowerValueBarrier ==
    /\ barrierLowered.status = "none"
    /\ \E k \in 1..Len(barrierBlock.block) :
          /\ barrierBlock.block[k].name = "iree_gpu.value_barrier"
          /\ barrierLowered' = lowerValueBarrier(barrierBlock, barrierBlock.block[k].id)
    /\ UNCHANGED <<mmaVars, shuffleVars, fuseVars, patternVars, barrierBlock,
                   driverVars>>

NextBarrier == LowerValueBarrier

SpecBarrier == InitBarrier /\ [][NextBarrier]_vars

----------------------------------------------------------------------------
(* Claims about verification and iteration bounds.                         *)

Max(S) == CHOOSE x \in S : \A y \in S : x >= y

IsDimExpr(e) == e.kind = "dim"

\* The conditions C1 lists, apart from the bounds and the element types.
C1_ListedStructure(o) ==
    /\ Len(o.indexingMaps) = 3
    /\ \A k \in 1..3 :
          LET results == o.indexingMaps[k].results
          IN  /\ o.indexingMaps[k].numSymbols = 0
              /\ \A p \in 1..Len(results) : IsDimExpr(results[p])
              /\ \A p, q \in 1..Len(results) : p # q => results[p] # results[q]
              /\ o.indexingMaps[k].numDims = Len(o.iteratorTypes)
              /\ Len(results) < Len(o.operands[k].shape)
    /\ inferContractionDims(o.indexingMaps)

\* The bounds verify derived, or (verify did not get that far) the bounds a
\* derivation yields.
C1_Bounds(o, log) == IF log # <<>> THEN log[1] ELSE getIterationBounds(o, TRUE, 1)

\* Every operand's outer shape, read through its map, equals the bounds.
C1_BoundsAgree(o, log) ==
    /\ ~C1_Bounds(o, log).aborted
    /\ \A k \in 1..3 :
          \A p \in 1..Len(o.indexingMaps[k].results) :
              o.operands[k].shape[p] =
                  C1_Bounds(o, log).bounds[o.indexingMaps[k].results[p].position + 1]

C1_ElementTypesAgree(o) ==
    /\ o.operands[1].elementType = o.kind.a
    /\ o.operands[2].elementType = o.kind.b
    /\ o.operands[3].elementType = o.kind.c

\* Every dimension an operand has beyond its map's results is static.
C1_InnerStatic(o) ==
    \A k \in 1..3 :
        \A p \in (Len(o.indexingMaps[k].results) + 1)..Len(o.operands[k].shape) :
            o.operands[k].shape[p] # kDynamic

\* C1 as claimed: verify succeeds if and only if there are three maps, every
\* map has no symbols, is a projected permutation, has one input per iterator
\* and fewer results than its operand's rank, the contraction dimensions are
\* inferable, the derived bounds equal every operand's outer shape and the
\* element types are the intrinsic's; nothing else makes verify fail.
C1_VerifyIffListed ==
    pc # "built" =>
        (verifyResult = "success"
            <=> (/\ C1_ListedStructure(op)
                 /\ C1_BoundsAgree(op, derived)
                 /\ C1_ElementTypesAgree(op)))

\* C1 as amended: verify succeeds if and only if the listed conditions hold
\* and, in addition, every inner dimension of every operand is static.
C1_VerifyIffListedAndInnerStatic ==
    pc # "built" =>
        (verifyResult = "success"
            <=> (/\ C1_ListedStructure(op)
                 /\ C1_InnerStatic(op)
                 /\ C1_BoundsAgree(op, derived)
                 /\ C1_ElementTypesAgree(op)))

\* A tensor op, whose inner dimensions could have been dynamic, is accepted.
C1_Witness ==
    /\ pc = "verified"
    /\ verifyResult = "success"
    /\ hasTensorSemantics(op)
    /\ "reduction" \in Range(op.iteratorTypes)

\* The map C2 routes iterator i to, and the shape it reads there.
C2_Results(o, i) ==
    IF o.iteratorTypes[i] = "reduction" THEN o.indexingMaps[1].results
    ELSE o.indexingMaps[3].results

C2_Shape(o, i) ==
    IF o.iteratorTypes[i] = "reduction" THEN o.operands[1].shape
    ELSE o.operands[3].shape

C2_Occurs(o, i) ==
    \E p \in 1..Len(C2_Results(o, i)) : C2_Results(o, i)[p] = getAffineDimExpr(i - 1)

C2_Expected(o) ==
    [i \in 1..Len(o.iteratorTypes) |->
        C2_Shape(o, i)[CHOOSE p \in 1..Len(C2_Results(o, i)) :
                            C2_Results(o, i)[p] = getAffineDimExpr(i - 1)]]

C2_BoundsAsRouted ==
    (\A i \in 1..Len(op.iteratorTypes) : C2_Occurs(op, i)) =>
        \A j \in 1..Len(derived) :
            /\ ~derived[j].aborted
            /\ derived[j].bounds = C2_Expected(op)
            /\ Len(derived[j].bounds) = Len(op.iteratorTypes)
            /\ derived[j] = derived[1]

\* C2: on an op whose iterators' dimensions each occur in the map they are
\* looked up in, getIterationBounds yields one bound per iterator in iterator
\* order, a reduction iterator's from the lhs shape and a parallel iterator's
\* from the accumulator shape, at the position of the iterator's dimension
\* among that map's results; it leaves the op as it is, and every derivation
\* yields the same sequence.
C2_IterationBounds ==
    /\ [](derived # <<>> => C2_BoundsAsRouted)
    /\ [][derived' # derived => op' = op]_vars

\* The bounds of a verified op with a parallel and a reduction iterator of
\* different extents were derived three times.
C2_Witness ==
    /\ pc = "verified"
    /\ Len(derived) = 3
    /\ op.iteratorTypes = <<"parallel", "reduction">>
    /\ derived[3].bounds = <<1, 2>>

----------------------------------------------------------------------------
(* Claims about unrolling.                                                 *)

\* The multi_mma ops the pattern created, by their position in creation
\* order, and the accumulator-space offset of the tile each was created for.
CreatedMmas == {k \in 1..Len(unroll.created) : unroll.created[k].name = "iree_gpu.multi_mma"}

AccOffsetOf(tile) ==
    [p \in 1..Len(op.indexingMaps[3].results) |->
        tile[op.indexingMaps[3].results[p].position + 1]]

AccOffsetOfMma(k) == AccOffsetOf(unroll.created[k].tile)

DifferOnlyInReductionDims(t1, t2) ==
    /\ t1 # t2
    /\ \A i \in 1..Len(t1) : t1[i] # t2[i] => op.iteratorTypes[i] = "reduction"

\* The accumulator operand of the k-th created op is a fresh slice of the
\* original accumulator at the tile's accumulator offset.
TakesFreshSlice(k) ==
    LET acc == unroll.created[k].operands[3]
    IN  /\ acc.def = "result"
        /\ unroll.created[acc.index].name = "vector.extract_strided_slice"
        /\ unroll.created[acc.index].operands = <<OperandValue(2)>>
        /\ unroll.created[acc.index].offsets = AccOffsetOfMma(k)

\* Every tile takes the result of the latest earlier tile of its accumulator
\* offset, and the first tile of an offset takes a fresh slice.
AccumulatorThreaded ==
    \A k \in CreatedMmas :
        LET earlier == {j \in CreatedMmas : j < k /\ AccOffsetOfMma(j) = AccOffsetOfMma(k)}
        IN  IF earlier = {} THEN TakesFreshSlice(k)
            ELSE unroll.created[k].operands[3] = ResultValue(Max(earlier))

\* C3 as claimed: in the unrolling of a verified op, two tiles that differ
\* only in reduction-kind dimensions have the same accumulator offset, a
\* tile takes as accumulator the result of the tile of its accumulator offset
\* visited last before it, and only the first tile of an offset takes a slice
\* of the original accumulator.  (Stated for the ops whose bounds are all
\* read from their shapes.)
C3_ReductionTilesShareAccumulator ==
    (unroll.status = "success" /\ allBoundsFound(op)) =>
        /\ \A j, k \in CreatedMmas :
              DifferOnlyInReductionDims(unroll.created[j].tile, unroll.created[k].tile)
                  => AccOffsetOfMma(j) = AccOffsetOfMma(k)
        /\ AccumulatorThreaded

\* The bounds the pattern unrolled, and the divisibility C4 speaks of.
UnrolledBounds == getIterationBounds(op, FALSE, unrollCall.junk).bounds

TargetDivides ==
    \A i \in 1..Len(UnrolledBounds) :
        UnrolledBounds[i] % unrollCall.native.value[i] = 0

\* C4: when the bounds are not divisible, dimension by dimension, by the
\* target shape, and when they equal it (the ratio is all ones), the pattern
\* fails to match, has created nothing and has not replaced the op.
C4_UnrollRejects ==
    (/\ unroll.status # "none"
     /\ unrollCall.native.has
     /\ (~TargetDivides \/ UnrolledBounds = unrollCall.native.value))
        => /\ unroll.status = "failure"
           /\ unroll.created = <<>>
           /\ unroll.replacement = NoValue
           /\ pc = "verified"

\* The pattern met a bound of 1 under a target size of 2 where another
\* dimension would have been split.
C4_Witness ==
    /\ unroll.status = "failure"
    /\ unrollCall.native.has
    /\ UnrolledBounds = <<1, 2>>
    /\ unrollCall.native.value = <<2, 1>>

\* The accumulator offsets of the tiles, without repetition, in the order
\* the tiles first reach them.
RECURSIVE FirstVisits(_, _)
FirstVisits(k, seen) ==
    IF k > Len(unroll.created) THEN seen
    ELSE IF k \in CreatedMmas /\ AccOffsetOfMma(k) \notin Range(seen)
        THEN FirstVisits(k + 1, Append(seen, AccOffsetOfMma(k)))
    ELSE FirstVisits(k + 1, seen)

LastMmaAt(offset) == Max({k \in CreatedMmas : AccOffsetOfMma(k) = offset})

\* C5: when the pattern succeeds, the op is replaced by a value of the op's
\* accumulator (result) shape and element type, the last of a chain that
\* starts at a zero constant of that type and inserts, for every accumulator
\* offset once, the last partial result of the offset at the offset followed
\* by a zero per inner dimension.
C5_AssemblesOriginalType ==
    unroll.status = "success" =>
        LET offsets == FirstVisits(1, <<>>)
            n == Len(unroll.created)
            first == n - Len(offsets)
            innerRank == Len(op.operands[3].shape) - Len(op.indexingMaps[3].results)
        IN  /\ offsets # <<>>
            /\ unroll.created[first].name = "arith.constant"
            /\ unroll.created[first].type = op.operands[3]
            /\ \A k \in 1..n : unroll.created[k].name = "arith.constant" => k = first
            /\ \A k \in 1..n :
                  unroll.created[k].name = "vector.insert_strided_slice" <=> k > first
            /\ \A i \in 1..Len(offsets) :
                  LET ins == unroll.created[first + i]
                  IN  /\ ins.operands = <<ResultValue(LastMmaAt(offsets[i])),
                                          ResultValue(first + i - 1)>>
                      /\ ins.offsets = offsets[i] \o [z \in 1..innerRank |-> 0]
                      /\ ins.type = op.operands[3]
                      \* bounds read from the shapes keep the slice inside
                      /\ allBoundsFound(op) => \A d \in 1..Len(ins.offsets) :
                            ins.offsets[d] + unroll.created[LastMmaAt(offsets[i])].type.shape[d]
                                <= op.operands[3].shape[d]
            /\ unroll.replacement = ResultValue(n)
            /\ unroll.created[n].type = getResultType(op)

\* An unrolling with two accumulator offsets, each reached by two tiles.
C5_Witness ==
    /\ unroll.status = "success"
    /\ allBoundsFound(op)
    /\ Len(FirstVisits(1, <<>>)) = 2
    /\ Cardinality(CreatedMmas) = 4

\* The tile offsets of the bounds under the target shape.
TileOffsets ==
    {t \in SeqsOfLen(0..MaxExtent, Len(UnrolledBounds)) :
        \A i \in 1..Len(t) :
            /\ t[i] < UnrolledBounds[i]
            /\ t[i] % unrollCall.native.value[i] = 0}

OnePerTile ==
    /\ {unroll.created[k].tile : k \in CreatedMmas} = TileOffsets
    /\ Cardinality(CreatedMmas) = Cardinality(TileOffsets)

\* C6 as claimed: every multi_mma op the pattern creates has an empty
\* indexing map per operand and no iterator kinds, and there is exactly one
\* such op per tile.
C6_TilesCarryEmptyMaps ==
    unroll.status = "success" =>
        /\ \A k \in CreatedMmas :
              /\ unroll.created[k].iteratorTypes = <<>>
              /\ Len(unroll.created[k].indexingMaps) = 3
              /\ \A m \in 1..3 :
                    /\ unroll.created[k].indexingMaps[m].results = <<>>
                    /\ unroll.created[k].indexingMaps[m].numDims = 0
        /\ OnePerTile

\* The created op k as a MultiMma op: its attributes, and the types of the
\* values it takes.
TypeOfValue(v) ==
    IF v.def = "operand" THEN op.operands[v.index + 1] ELSE unroll.created[v.index].type

CreatedAsOp(k) ==
    [operands      |-> [i \in 1..3 |-> TypeOfValue(unroll.created[k].operands[i])],
     resultType    |-> unroll.created[k].type,
     indexingMaps  |-> unroll.created[k].indexingMaps,
     iteratorTypes |-> unroll.created[k].iteratorTypes,
     kind          |-> op.kind,
     tensor        |-> FALSE]

\* C6 as amended: every multi_mma op the pattern creates has the indexing
\* maps, the iterator kinds and the intrinsic kind of the op it unrolls (so
\* its iteration bounds are the target shape, not empty), and there is
\* exactly one such op per tile.
C6_TilesCarryOriginalMaps ==
    unroll.status = "success" =>
        /\ \A k \in CreatedMmas :
              /\ unroll.created[k].indexingMaps = op.indexingMaps
              /\ unroll.created[k].iteratorTypes = op.iteratorTypes
              /\ unroll.created[k].kind = op.kind.name
              /\ allBoundsFound(op) =>
                    getIterationBounds(CreatedAsOp(k), TRUE, 1)
                        = [aborted |-> FALSE, bounds |-> unrollCall.native.value]
        /\ OnePerTile

\* An unrolling into four tiles.
C6_Witness ==
    /\ unroll.status = "success"
    /\ allBoundsFound(op)
    /\ Cardinality(TileOffsets) = 4
    /\ Cardinality(CreatedMmas) = 4

----------------------------------------------------------------------------
(* Claims about the shuffle lowering.                                      *)

OpsNamed(block, name) == {k \in 1..Len(block) : block[k].name = name}

\* The body the lowering was given, and the value its terminator yields.
GivenBody == shuffleBlock[indexOf(shuffleBlock, ShuffleId)].region

GivenYield == GivenBody[Len(GivenBody)].operands[1]

\* C7 as claimed: lowering a shuffle whose body is its terminator alone,
\* yielding the body's argument, succeeds and leaves in the block exactly
\* one tensor.insert_slice, no body operation, and exactly two value
\* barriers: one on the inserted value and one on the result of the first;
\* every user of the shuffle's result reads the second.
C7_IdentityBodyLowering ==
    (/\ lowered.status # "none"
     /\ Len(GivenBody) = 1
     /\ GivenYield = BlockArgument(ShuffleBody, 0))
        => LET block == lowered.block
               inserts == OpsNamed(block, "tensor.insert_slice")
               barriers == OpsNamed(block, "iree_gpu.value_barrier")
           IN  /\ lowered.status = "success"
               /\ Cardinality(inserts) = 1
               /\ OpsNamed(block, "body.op") = {}
               /\ Cardinality(barriers) = 2
               /\ \E w, r \in barriers :
                     /\ w # r
                     /\ \A i \in inserts : block[w].operands = <<OpResult(block[i].id, 0)>>
                     /\ block[r].operands = <<OpResult(block[w].id, 0)>>
                     /\ \A u \in OpsNamed(block, "user.op") :
                           block[u].operands = <<OpResult(block[r].id, 0)>>

\* C8 as claimed, for the bodies that do not yield their own argument: the
\* lowered block has the insertion, then the write barrier on it, then every
\* operation of the body, then the read barrier, then every user of the
\* shuffle's result.
C8_BarriersEncloseBody ==
    (/\ lowered.status = "success"
     /\ GivenYield # BlockArgument(ShuffleBody, 0))
        => LET block == lowered.block
               insert == indexOf(block, InsertId)
               write == indexOf(block, WriteBarrierId)
               read == indexOf(block, ReadBarrierId)
           IN  /\ 0 < insert
               /\ insert < write
               /\ write < read
               /\ block[write].operands = <<OpResult(InsertId, 0)>>
               /\ \A k \in OpsNamed(block, "body.op") : write < k /\ k < read
               /\ \A u \in OpsNamed(block, "user.op") : read < u

----------------------------------------------------------------------------
(* Claims about the fusion.                                                *)

GivenProducer == fuseInput.func[indexOf(fuseInput.func, ProducerId)]

GivenConsumer == fuseInput.func[indexOf(fuseInput.func, ConsumerId)]

HasDynamic(loop) ==
    \E d \in 1..Len(loop.ubs) :
        loop.lbs[d] = kDynamic \/ loop.ubs[d] = kDynamic \/ loop.steps[d] = kDynamic

\* The number of iterations of a loop with static bounds and steps.
RECURSIVE TripsFrom(_, _)
TripsFrom(loop, d) ==
    IF d > Len(loop.ubs) THEN 1
    ELSE LET extent == loop.ubs[d] - loop.lbs[d]
             trips == IF extent <= 0 THEN 0
                      ELSE (extent + loop.steps[d] - 1) \div loop.steps[d]
         IN  trips * TripsFrom(loop, d + 1)

\* A mapping that is there is all threads or all warps.
Homogeneous(mapping) ==
    mapping.present =>
        \E a \in {"GPUThreadMappingAttr", "GPUWarpMappingAttr"} :
            \A i \in 1..Len(mapping.value) : mapping.value[i] = a

ChainEndsInSlice ==
    /\ fuseInput.consumerChain # <<>>
    /\ \E k \in 1..Len(GivenConsumer.region) :
          /\ GivenConsumer.region[k].id = fuseInput.consumerChain[Len(fuseInput.consumerChain)]
          /\ GivenConsumer.region[k].name = "tensor.extract_slice"

\* One of the preconditions C9 lists is violated.  (Loops without a mapping
\* are not counted as violating the precondition on the mappings.)
C9_PreconditionViolated ==
    \/ ~ChainEndsInSlice
    \/ Len(GivenProducer.operands) # 1
    \/ HasDynamic(GivenProducer)
    \/ HasDynamic(GivenConsumer)
    \/ TripsFrom(GivenProducer, 1) # TripsFrom(GivenConsumer, 1)
    \/ GivenProducer.mapping # GivenConsumer.mapping
    \/ ~Homogeneous(GivenProducer.mapping)
    \/ ~Homogeneous(GivenConsumer.mapping)
    \/ \E d \in 1..Len(GivenProducer.ubs) :
          GivenProducer.lbs[d] # 0 \/ GivenProducer.steps[d] # 1
    \/ \E d \in 1..Len(GivenConsumer.ubs) :
          GivenConsumer.lbs[d] # 0 \/ GivenConsumer.steps[d] # 1

\* C9 as claimed: a call with a violated precondition returns failure and
\* leaves the function as it was.
C9_FailsWithoutMutation ==
    (fused.status # "none" /\ C9_PreconditionViolated)
        => fused.status = "failure" /\ fused.func = fuseInput.func

\* The operations of a block and of the regions in it, two levels deep.
AllOps(block) ==
    {block[k] : k \in 1..Len(block)}
        \cup UNION {{block[k].region[j] : j \in 1..Len(block[k].region)} :
                      k \in 1..Len(block)}
        \cup UNION {UNION {{block[k].region[j].region[i] :
                              i \in 1..Len(block[k].region[j].region)} :
                             j \in 1..Len(block[k].region)} :
                      k \in 1..Len(block)}

\* A value of the producer's body as it reads once the body is spliced: an
\* id of the producer is a result of the delinearization, an output argument
\* is the producer's output.
Spliced(v) ==
    IF v.def = "arg" /\ v.of = ProducerBody
    THEN IF v.index < Len(GivenProducer.ubs) THEN OpResult(DelinearizeId, v.index)
         ELSE GivenProducer.operands[v.index - Len(GivenProducer.ubs) + 1]
    ELSE v

SplicedEntries(entries) ==
    [i \in 1..Len(entries) |->
        IF entries[i].isAttr THEN entries[i] ELSE ValueEntry(Spliced(entries[i].value))]

\* C10: after a successful fusion the consumer's body has, where the slice
\* was, the shuffle, and directly in front of it the operations of the
\* producer's body, each once; the shuffle is the only one, its source, its
\* destination and its offsets, sizes and strides are those of the
\* producer's (first) parallel_insert_slice; and the producer, its
\* terminator and that parallel_insert_slice are nowhere in the function.
C10_FusionSplicesOnce ==
    fused.status = "success" =>
        LET consumer == fused.func[indexOf(fused.func, ConsumerId)]
            body == consumer.region
            shuffle == indexOf(body, ShuffleId)
            given == GivenProducer.region
            terminator == given[Len(given)]
            parallelInsert == terminator.region[1]
            slice == indexOf(GivenConsumer.region, SliceId)
        IN  /\ shuffle > Len(given) - 1
            /\ \A k \in 1..(Len(given) - 1) :
                  /\ body[shuffle - Len(given) + k].id = given[k].id
                  /\ Cardinality({o \in AllOps(fused.func) : o.id = given[k].id}) = 1
            /\ Cardinality({o \in AllOps(fused.func) :
                               o.name = "iree_gpu.shuffle_tensor"}) = 1
            /\ Len(body) - shuffle = Len(GivenConsumer.region) - slice
            /\ body[shuffle].operands = <<Spliced(parallelInsert.operands[1]),
                                          Spliced(parallelInsert.operands[2])>>
            /\ body[shuffle].offsets = SplicedEntries(parallelInsert.offsets)
            /\ body[shuffle].sizes = SplicedEntries(parallelInsert.sizes)
            /\ body[shuffle].strides = SplicedEntries(parallelInsert.strides)
            /\ \A o \in AllOps(fused.func) :
                  /\ o.id # ProducerId
                  /\ o.id # terminator.id
                  /\ o.id # parallelInsert.id

\* A fusion of two-dimensional loops of different shapes, through a chain of
\* two operations, of a producer with two parallel_insert_slice ops.
C10_Witness ==
    /\ fused.status = "success"
    /\ Len(GivenProducer.ubs) = 2
    /\ GivenProducer.ubs # GivenConsumer.ubs
    /\ Len(fuseInput.consumerChain) = 2
    /\ Len(GivenProducer.region[Len(GivenProducer.region)].region) = 2

----------------------------------------------------------------------------
(* Claims about the lowering to the intrinsic.                             *)

\* The iteration bounds the applied pattern derived, or would derive, of op.
PatternBounds == getIterationBounds(op, FALSE, mmaRewrite.junk).bounds

LoweringApplied == mmaRewrite.pattern = "lower"

\* C11: the lowering pattern returns a match failure, creating and replacing
\* nothing and without a crash, on every op that has tensor semantics or
\* non-empty iteration bounds; the ops it rewrites have vector semantics and
\* empty iteration bounds.
C11_LowersOnlySingleVectorMma ==
    LoweringApplied =>
        /\ (hasTensorSemantics(op) \/ PatternBounds # <<>>) =>
              /\ mmaRewrite.outcome.status = "failure"
              /\ mmaRewrite.outcome.created = <<>>
              /\ mmaRewrite.outcome.replacement = NoValue
        /\ mmaRewrite.outcome.status # "crashed"
        /\ mmaRewrite.outcome.status = "success" =>
              /\ ~hasTensorSemantics(op)
              /\ PatternBounds = <<>>
              /\ mmaRewrite.outcome.replacement # NoValue

\* The lowering was applied to a vector op of two unit bounds, and failed.
C11_Witness ==
    /\ LoweringApplied
    /\ ~hasTensorSemantics(op)
    /\ PatternBounds = <<1, 1>>
    /\ mmaRewrite.outcome.status = "failure"

\* The operations of a name among those the applied pattern created.
CreatedNamed(name) ==
    {k \in 1..Len(mmaRewrite.outcome.created) :
        mmaRewrite.outcome.created[k].name = name}

\* The shape casts of the op's operand index.
CastsOfOperand(index) ==
    {k \in CreatedNamed("vector.shape_cast") :
        mmaRewrite.outcome.created[k].operands = <<OperandValue(index)>>}

\* The value that stands for operand index in the intrinsic: its cast when
\* there is one.
LoweredOperand(index) ==
    IF CastsOfOperand(index) = {} THEN OperandValue(index)
    ELSE ResultValue(CHOOSE k \in CastsOfOperand(index) : TRUE)

\* C18: when the lowering applies, each of lhs, rhs and acc is shape-cast to
\* the kind's native A, B, C type if and only if its type differs from it,
\* the intrinsic is built once on these values with the native accumulator
\* type as its result type, and the op is replaced by a shape cast of the
\* intrinsic's result to the accumulator's type, which is the op's result
\* type.
C18_CastsToNativeWhereNeeded ==
    (LoweringApplied /\ mmaRewrite.outcome.status = "success") =>
        LET created == mmaRewrite.outcome.created
            native == getABCVectorTypes(op.kind)
            last == Len(created)
        IN  /\ \A index \in 0..2 :
                  /\ CastsOfOperand(index) # {} <=> op.operands[index + 1] # native[index + 1]
                  /\ Cardinality(CastsOfOperand(index)) <= 1
                  /\ \A k \in CastsOfOperand(index) : created[k].type = native[index + 1]
            /\ Cardinality(CreatedNamed("amdgpu.mfma")) = 1
            /\ \A k \in CreatedNamed("amdgpu.mfma") :
                  /\ created[k].operands = [i \in 1..3 |-> LoweredOperand(i - 1)]
                  /\ created[k].type = native[3]
                  /\ created[last].operands = <<ResultValue(k)>>
            /\ Cardinality(CreatedNamed("vector.shape_cast")) =
                  1 + Cardinality({index \in 0..2 : CastsOfOperand(index) # {}})
            /\ mmaRewrite.outcome.replacement = ResultValue(last)
            /\ created[last].name = "vector.shape_cast"
            /\ created[last].type = getAccType(op)
            /\ created[last].type = getResultType(op)

\* The lowering applied to an op whose lhs needs a cast and whose
\* accumulator needs none.
C18_Witness ==
    /\ LoweringApplied
    /\ mmaRewrite.outcome.status = "success"
    /\ getLhsType(op) # getABCVectorTypes(op.kind)[1]
    /\ getAccType(op) = getABCVectorTypes(op.kind)[3]

----------------------------------------------------------------------------
(* Claims about unit-dimension folding.                                    *)

FoldingApplied == mmaRewrite.pattern = "drop"

\* The number of results of the indexing map of operand index.
OuterRankOf(index) == Len(op.indexingMaps[index + 1].results)

\* The vector.extract ops of the op's operand index.
ExtractsOfOperand(index) ==
    {k \in CreatedNamed("vector.extract") :
        mmaRewrite.outcome.created[k].operands = <<OperandValue(index)>>}

\* The value that stands for operand index in the folded op.
FoldedOperand(index) ==
    IF ExtractsOfOperand(index) = {} THEN OperandValue(index)
    ELSE ResultValue(CHOOSE k \in ExtractsOfOperand(index) : TRUE)

\* C12: when the folding applies, each operand loses exactly its outer rank
\* of leading dimensions (an operand of outer rank 0 is taken as it is), one
\* new MultiMma op is created on the reduced operands with three empty
\* indexing maps, no iterator kind and the op's intrinsic kind, and the op
\* is replaced by a broadcast of the new op's result to the op's result type.
C12_FoldingDropsOuterRank ==
    (FoldingApplied /\ mmaRewrite.outcome.status = "success") =>
        LET created == mmaRewrite.outcome.created
            last == Len(created)
        IN  /\ \A index \in 0..2 :
                  LET shape == op.operands[index + 1].shape
                  IN  /\ Cardinality(ExtractsOfOperand(index)) =
                            IF OuterRankOf(index) = 0 THEN 0 ELSE 1
                      /\ \A k \in ExtractsOfOperand(index) :
                            /\ created[k].offsets = Zeros(OuterRankOf(index))
                            /\ created[k].type.shape =
                                  SubSeq(shape, OuterRankOf(index) + 1, Len(shape))
                            /\ created[k].type.elementType =
                                  op.operands[index + 1].elementType
            /\ Cardinality(CreatedNamed("vector.extract")) =
                  Cardinality({index \in 0..2 : OuterRankOf(index) > 0})
            /\ Cardinality(CreatedNamed("iree_gpu.multi_mma")) = 1
            /\ \A k \in CreatedNamed("iree_gpu.multi_mma") :
                  /\ created[k].operands = [i \in 1..3 |-> FoldedOperand(i - 1)]
                  /\ Len(created[k].indexingMaps) = 3
                  /\ \A i \in 1..3 :
                        /\ created[k].indexingMaps[i].results = <<>>
                        /\ created[k].indexingMaps[i].numDims = 0
                        /\ created[k].indexingMaps[i].numSymbols = 0
                  /\ created[k].iteratorTypes = <<>>
                  /\ created[k].kind = op.kind.name
                  /\ created[last].operands = <<ResultValue(k)>>
            /\ created[last].name = "vector.broadcast"
            /\ created[last].type = getResultType(op)
            /\ Cardinality(CreatedNamed("vector.broadcast")) = 1
            /\ mmaRewrite.outcome.replacement = ResultValue(last)

\* The folding applied to an op whose lhs has outer rank 2 and whose rhs has
\* outer rank 0.
C12_Witness ==
    /\ FoldingApplied
    /\ mmaRewrite.outcome.status = "success"
    /\ OuterRankOf(0) = 2
    /\ OuterRankOf(1) = 0

AllBoundsUnit == \A i \in 1..Len(PatternBounds) : PatternBounds[i] = 1

FoldingLeavesOpUnchanged ==
    /\ mmaRewrite.outcome.status = "failure"
    /\ mmaRewrite.outcome.created = <<>>
    /\ mmaRewrite.outcome.replacement = NoValue

\* C13 as stated: the folding rewrites the op exactly when every derived
\* iteration bound equals 1 and the op does not have tensor semantics, and
\* otherwise fails and leaves the op unchanged.
C13_FoldsIffAllBoundsUnit ==
    FoldingApplied =>
        /\ mmaRewrite.outcome.status = "success" <=>
              (AllBoundsUnit /\ ~hasTensorSemantics(op))
        /\ mmaRewrite.outcome.status # "success" => FoldingLeavesOpUnchanged

\* C13 amended: the folding rewrites the op exactly when the op has at
\* least one iteration bound, every derived bound equals 1 and the op does
\* not have tensor semantics, and otherwise fails and leaves the op
\* unchanged.
C13_FoldsIffSomeAndAllBoundsUnit ==
    FoldingApplied =>
        /\ mmaRewrite.outcome.status = "success" <=>
              (PatternBounds # <<>> /\ AllBoundsUnit /\ ~hasTensorSemantics(op))
        /\ mmaRewrite.outcome.status # "success" => FoldingLeavesOpUnchanged

\* The folding was applied to a vector op without iteration bounds, and
\* failed.
C13_Witness ==
    /\ FoldingApplied
    /\ ~hasTensorSemantics(op)
    /\ PatternBounds = <<>>
    /\ mmaRewrite.outcome.status = "failure"

----------------------------------------------------------------------------
(* Claims about construction.                                              *)

\* C14: the op MultiMmaOp::build makes has the operands lhs, rhs, acc in
\* that order, the accumulator's type as its result type, and reads back the
\* iterator kinds, the intrinsic kind and the indexing maps it was given
\* (from expression lists: maps whose results are the lists), whether or not
\* the op then verifies.
C14_BuildStoresItsArguments ==
    pc \notin {"none", "unbuilt"} /\ buildArgs.overload # "none" =>
        /\ op.operands = <<buildArgs.lhs, buildArgs.rhs, buildArgs.acc>>
        /\ getResultType(op) = buildArgs.acc
        /\ op.iteratorTypes = buildArgs.iteratorTypes
        /\ op.kind = buildArgs.kind
        /\ buildArgs.overload = "maps" => op.indexingMaps = buildArgs.indexing
        /\ buildArgs.overload = "exprs" =>
              [i \in 1..Len(op.indexingMaps) |-> op.indexingMaps[i].results]
                 = buildArgs.indexing

\* An op was built from maps that verify then rejected.
C14_Witness ==
    /\ pc = "rejected"
    /\ buildArgs.overload = "maps"
    /\ Len(buildArgs.iteratorTypes) = 2
    /\ op.indexingMaps = buildArgs.indexing

----------------------------------------------------------------------------
(* Claims about the lowering of value barriers.                            *)

\* The barrier the pattern was applied to, as it was in the given block.
GivenBarrier == barrierBlock.block[indexOf(barrierBlock.block, barrierLowered.barrier)]

\* operands with every occurrence of from replaced by to.
OperandsRedirected(operands, from, to) ==
    [i \in 1..Len(operands) |-> IF operands[i] = from THEN to ELSE operands[i]]

\* C17: applied to a barrier of tensor semantics the pattern fails and the
\* block is as it was; applied to any other barrier it puts exactly one
\* gpu.barrier where the value barrier was, the value barrier is gone, and
\* every use of its result is a use of its input, whose type is the type the
\* result had.
C17_BarrierLowering ==
    barrierLowered.status # "none" =>
        LET before == barrierBlock.block
            after == barrierLowered.typed.block
            position == indexOf(before, barrierLowered.barrier)
            input == GivenBarrier.operands[1]
            result == OpResult(barrierLowered.barrier, 0)
        IN  IF barrierBlock.types[input.of].tensor
            THEN /\ barrierLowered.status = "failure"
                 /\ barrierLowered.typed = barrierBlock
            ELSE /\ barrierLowered.status = "success"
                 /\ Len(after) = Len(before)
                 /\ after[position].name = "gpu.barrier"
                 /\ after[position].operands = <<>>
                 /\ Cardinality(OpsNamed(after, "gpu.barrier")) = 1
                 /\ \A k \in 1..Len(after) : after[k].id # barrierLowered.barrier
                 /\ \A k \in 1..Len(before) :
                       k # position =>
                          /\ after[k].id = before[k].id
                          /\ after[k].name = before[k].name
                          /\ after[k].operands =
                                OperandsRedirected(before[k].operands, result, input)
                 /\ barrierBlock.types[input.of] = barrierBlock.types[result.of]
                 /\ barrierLowered.typed.types[input.of] = barrierBlock.types[result.of]

\* A vector barrier with a user of its result and a barrier on its input
\* was lowered.
C17_Witness ==
    /\ barrierLowered.status = "success"
    /\ GivenBarrier.operands[1].of.role = "iree_gpu.value_barrier"
    /\ \E k \in 1..Len(barrierBlock.block) :
          /\ barrierBlock.block[k].name = "user.op"
          /\ barrierBlock.block[k].operands = <<OpResult(barrierLowered.barrier, 0)>>

----------------------------------------------------------------------------
(* Claims about the ids the fusion computes.                               *)

\* The index tuples of a loop of the given worker counts.
IndexTuples(counts) ==
    {c \in SeqsOfLen(0..(Max(Range(counts) \cup {1}) - 1), Len(counts)) :
        \A k \in 1..Len(counts) : c[k] < counts[k]}

\* The row-major position of the tuple c in a space of the given counts.
RECURSIVE Linearized(_, _)
Linearized(counts, c) ==
    IF c = <<>> THEN 0
    ELSE Head(c) * Product(Tail(counts)) + Linearized(Tail(counts), Tail(c))

FusedBody == fused.func[indexOf(fused.func, ConsumerId)].region

FusedDelinearize == FusedBody[indexOf(FusedBody, DelinearizeId)]

\* The value of the delinearization's linear index at the consumer ids c.
FusedLinearId(c) ==
    LET id == FusedDelinearize.operands[1]
        apply == FusedBody[indexOf(FusedBody, id.of)]
    IN  IF id.def = "arg" THEN c[id.index + 1]
        ELSE applyValue(apply.value,
                        [i \in 1..Len(apply.operands) |-> c[apply.operands[i].index + 1]])

\* The basis of the delinearization: the values of its constants.
FusedBasis ==
    [k \in 1..(Len(FusedDelinearize.operands) - 1) |->
        FusedBody[indexOf(FusedBody, FusedDelinearize.operands[k + 1].of)].value[1]]

FusedProducerIds(c) == delinearizeIndex(FusedLinearId(c), FusedBasis)

\* C15: in a successful fusion, at every consumer index tuple c the linear
\* id is the fold of id * count_k + c_k over the consumer's dimensions from
\* 0, the producer ids delinearized from it over the producer's worker
\* counts lie in 0..count_j - 1 and linearize back to the same id, and so the
\* consumer tuples map one-to-one onto the producer tuples.
C15_IdsMapOneToOne ==
    fused.status = "success" =>
        LET consumerCounts == GivenConsumer.ubs
            producerCounts == GivenProducer.ubs
        IN  /\ FusedBasis = producerCounts
            /\ \A c \in IndexTuples(consumerCounts) :
                  LET p == FusedProducerIds(c)
                  IN  /\ FusedLinearId(c) = Linearized(consumerCounts, c)
                      /\ \A j \in 1..Len(p) : 0 <= p[j] /\ p[j] < producerCounts[j]
                      /\ Linearized(producerCounts, p) = FusedLinearId(c)
            /\ \A c1, c2 \in IndexTuples(consumerCounts) :
                  FusedProducerIds(c1) = FusedProducerIds(c2) => c1 = c2
            /\ {FusedProducerIds(c) : c \in IndexTuples(consumerCounts)}
                  = IndexTuples(producerCounts)

\* A fusion of two-dimensional loops of different shapes with more than one
\* worker.
C15_Witness ==
    /\ fused.status = "success"
    /\ Len(GivenConsumer.ubs) = 2
    /\ GivenProducer.ubs # GivenConsumer.ubs
    /\ Cardinality(IndexTuples(GivenConsumer.ubs)) > 1

----------------------------------------------------------------------------
(* Claims about the consumer chain.                                        *)

\* The operation of the consumer's body, as given, with the identity id.
GivenConsumerOp(id) == GivenConsumer.region[indexOf(GivenConsumer.region, id)]

\* C16: after a successful fusion the operations of the consumer chain are
\* the operations of the shuffle's region in chain order, in front of the
\* yield, and nowhere else; the first reads the region's argument where it
\* read the producer's result and each is otherwise as it was; the yield
\* yields the extract_slice's result; and every use of that result by an
\* operation outside the region is a use of the shuffle's result.
C16_ChainMovesIntoShuffle ==
    fused.status = "success" =>
        LET chain == fuseInput.consumerChain
            region == FusedBody[indexOf(FusedBody, ShuffleId)].region
            slice == OpResult(chain[Len(chain)], 0)
            argument == BlockArgument(ShuffleBody, 0)
        IN  /\ Len(region) = Len(chain) + 1
            /\ \A k \in 1..Len(chain) :
                  LET given == GivenConsumerOp(chain[k])
                  IN  /\ region[k].id = chain[k]
                      /\ region[k].name = given.name
                      /\ region[k].offsets = given.offsets
                      /\ region[k].operands =
                            IF k = 1
                            THEN OperandsRedirected(given.operands,
                                                    OpResult(ProducerId, 0), argument)
                            ELSE given.operands
                      /\ \A j \in 1..Len(FusedBody) : FusedBody[j].id # chain[k]
            /\ argument \in Range(region[1].operands)
            /\ region[Len(region)].name = "iree_gpu.yield"
            /\ region[Len(region)].operands = <<slice>>
            /\ \A j \in 1..Len(FusedBody) :
                  /\ slice \notin Range(FusedBody[j].operands)
                  /\ indexOf(GivenConsumer.region, FusedBody[j].id) # 0 =>
                        FusedBody[j].operands =
                            OperandsRedirected(GivenConsumerOp(FusedBody[j].id).operands,
                                               slice, OpResult(ShuffleId, 0))

\* A fusion through a chain of two operations, with a user of the slice
\* behind it.
C16_Witness ==
    /\ fused.status = "success"
    /\ Len(fuseInput.consumerChain) = 2
    /\ \E j \in 1..Len(FusedBody) :
          /\ FusedBody[j].name = "user.op"
          /\ FusedBody[j].operands = <<OpResult(ShuffleId, 0)>>

----------------------------------------------------------------------------
(* Claims about the assertions of the bounds derivation.                   *)

\* C19: whenever the structural checks of verify pass, every lookup of the
\* bounds derivation verify then makes finds its dimension (a reduction
\* iterator's among the lhs map's results, any other's among the
\* accumulator map's), and verify ends in success or in a diagnostic, not
\* in a failed assertion or a read outside a shape.
C19_VerifyLookupsSucceed ==
    (pc # "built" /\ verifyStructure(op) = "") =>
        /\ \A i \in 0..(Len(op.iteratorTypes) - 1) :
              getResultIndex(IF op.iteratorTypes[i + 1] = "reduction"
                             THEN op.indexingMaps[1] ELSE op.indexingMaps[3],
                             getAffineDimExpr(i)) >= 0
        /\ verifyResult # "aborted"
        /\ pc # "aborted"

----------------------------------------------------------------------------
(* Claims about the memo table of the unrolling.                           *)

\* The keys of the memo table, in insertion order.
CacheKeys == [i \in 1..Len(unroll.accCache) |-> unroll.accCache[i].key]

\* The outer shape of the accumulator, and the shape of a tile in it.
AccOuterShape == SubSeq(op.operands[3].shape, 1, Len(op.indexingMaps[3].results))

AccTileShape == AccOffsetOf(unrollCall.native.value)

\* The points of the outer accumulator space.
AccPoints ==
    {x \in SeqsOfLen(0..(Max(Range(AccOuterShape) \cup {1}) - 1), Len(AccOuterShape)) :
        \A d \in 1..Len(x) : x[d] < AccOuterShape[d]}

\* The point x lies in the tile at offset key.
InAccTile(x, key) ==
    \A d \in 1..Len(x) : key[d] <= x[d] /\ x[d] < key[d] + AccTileShape[d]

\* The created ops of the tiles that project to the accumulator offset key.
MmasAt(key) == {k \in CreatedMmas : AccOffsetOfMma(k) = key}

\* C20: under every traversal order, when the unrolling finishes the memo
\* table has exactly one entry per accumulator offset of a tile, the tiles
\* at these offsets cover the outer accumulator space, each point once and
\* none outside, and the entry of an offset is the result of the last of a
\* chain of ops that starts on the slice of the original accumulator at the
\* offset and goes through every tile projecting to the offset once.
C20_MemoTableTilesAccumulator ==
    unroll.status = "success" =>
        /\ \A i, j \in 1..Len(CacheKeys) : CacheKeys[i] = CacheKeys[j] => i = j
        /\ Range(CacheKeys) = {AccOffsetOf(t) : t \in TileOffsets}
        /\ \A x \in AccPoints :
              Cardinality({i \in 1..Len(CacheKeys) : InAccTile(x, CacheKeys[i])}) = 1
        /\ \A i \in 1..Len(CacheKeys) :
              \A d \in 1..Len(AccOuterShape) :
                  CacheKeys[i][d] + AccTileShape[d] <= AccOuterShape[d]
        /\ OnePerTile
        /\ AccumulatorThreaded
        /\ \A i \in 1..Len(CacheKeys) :
              /\ MmasAt(CacheKeys[i]) # {}
              /\ unroll.accCache[i].value = ResultValue(Max(MmasAt(CacheKeys[i])))
              /\ {unroll.created[k].tile : k \in MmasAt(CacheKeys[i])}
                    = {t \in TileOffsets : AccOffsetOf(t) = CacheKeys[i]}
              /\ Cardinality(MmasAt(CacheKeys[i]))
                    = Cardinality({t \in TileOffsets : AccOffsetOf(t) = CacheKeys[i]})

\* C20 for the ops whose bounds are all read from their shapes.
C20_WhereBoundsAreFound ==
    (unroll.status = "success" /\ allBoundsFound(op)) => C20_MemoTableTilesAccumulator

----------------------------------------------------------------------------
(* The three MultiMma patterns under a rewrite driver.                     *)
(*                                                                         *)
(* The driver applies a pattern to a MultiMma op of the IR as long as one  *)
(* matches.  A rewrite replaces the op it matched by the ops it created,   *)
(* finitely many of them, so rewriting goes on forever exactly if some op  *)
(* has an endless line of descendants: op is followed along one such line, *)
(* any created MultiMma op being the next one.                             *)

\* Value::getType of an operand of o or of a result of a created operation.
getValueType(o, created, value) ==
    IF value.def = "operand" THEN o.operands[value.index + 1]
    ELSE created[value.index].type

\* The MultiMma op that the k-th operation created by a rewrite of o is: its
\* operand types are those of the values it was created on, its attributes
\* those it was created with.
createdMultiMma(o, created, k) ==
    [operands      |-> [i \in 1..3 |-> getValueType(o, created, created[k].operands[i])],
     resultType    |-> created[k].type,
     indexingMaps  |-> created[k].indexingMaps,
     iteratorTypes |-> created[k].iteratorTypes,
     kind          |-> o.kind,
     tensor        |-> FALSE]

\* The MultiMma ops among the operations a rewrite of o created.
createdMultiMmas(o, created) ==
    {createdMultiMma(o, created, k) :
        k \in {j \in 1..Len(created) : created[j].name = "iree_gpu.multi_mma"}}

\* The unroll pattern as the driver holds it: no filter constraint, the
\* default traversal order, and the native shape the callback returns.
unrollWithOptions(o, native, junk) ==
    matchAndRewriteUnroll(o, TRUE, native, [i \in 1..Len(o.iteratorTypes) |-> i - 1],
                          junk)

\* The driver starts on a built op of vector semantics; the callback of the
\* unroll options returns nothing or one shape, the same for every op.
InitDriver ==
    /\ op \in {o \in WellFormedOps : ~hasTensorSemantics(o)}
    /\ nativeShape \in {NoNativeShape}
                       \cup {[has |-> TRUE, value |-> t] :
                                t \in SeqsOfLen(1..MaxExtent, NumIterationDims)}
    /\ oddRewrites = FALSE
    /\ pc = "built"
    /\ verifyResult = ""
    /\ derived = <<>>
    /\ unrollCall = NoCall
    /\ unroll = NoUnroll
    /\ buildArgs = NoBuildCall
    /\ mmaRewrite = NoMmaRewrite
    /\ NoRewrites
    /\ barrierBlock = NoBarrierBlock
    /\ barrierLowered = NoBarrier

\* UnrollMultiMmaPattern matches op: the tiles it creates replace op.
DriverUnroll ==
    /\ pc = "verified"
    /\ \E junk \in JunkReadsOf(op) :
          LET outcome == unrollWithOptions(op, nativeShape, junk)
          IN  /\ outcome.status = "success"
              /\ op' \in createdMultiMmas(op, outcome.created)
              /\ mmaRewrite' = MmaRewrite("unroll", junk,
                                          PatternOutcome("success", "", outcome.created,
                                                         outcome.replacement))
    /\ oddRewrites' = ~oddRewrites
    /\ UNCHANGED <<pc, verifyResult, derived, unrollCall, unroll, shuffleVars, fuseVars,
                   buildArgs, barrierVars, nativeShape>>

\* DropMultiMmaUnitDimsPattern matches op: the op without iteration
\* dimension that it creates replaces op.
DriverDropUnitDims ==
    /\ pc = "verified"
    /\ \E junk \in JunkReadsOf(op) :
          LET outcome == matchAndRewriteDrop(op, junk)
          IN  /\ outcome.status = "success"
              /\ op' \in createdMultiMmas(op, outcome.created)
              /\ mmaRewrite' = MmaRewrite("drop", junk, outcome)
    /\ oddRewrites' = ~oddRewrites
    /\ UNCHANGED <<pc, verifyResult, derived, unrollCall, unroll, shuffleVars, fuseVars,
                   buildArgs, barrierVars, nativeShape>>

\* LowerMultiMmaPattern matches op: op is replaced by the intrinsic and
\* erased, or building the intrinsic fails and the pattern crashes.
DriverLower ==
    /\ pc = "verified"
    /\ \E junk \in JunkReadsOf(op) :
          LET outcome == matchAndRewriteLower(op, junk)
          IN  /\ outcome.status # "failure"
              /\ pc' = IF outcome.status = "success" THEN "erased" ELSE "aborted"
              /\ mmaRewrite' = MmaRewrite("lower", junk, outcome)
    /\ oddRewrites' = ~oddRewrites
    /\ UNCHANGED <<op, verifyResult, derived, unrollCall, unroll, shuffleVars, fuseVars,
                   buildArgs, barrierVars, nativeShape>>

\* The rewrites the driver may make.
DriverRewrite ==
    \/ DriverUnroll
    \/ DriverDropUnitDims
    \/ DriverLower

NextDriver ==
    \/ Verify
    \/ DriverUnroll
    \/ DriverDropUnitDims
    \/ DriverLower

SpecDriver == InitDriver /\ [][NextDriver]_vars

\* Some pattern matches the verified op, under some value a failing lookup
\* may read: the driver can rewrite (every rewrite changes oddRewrites, and a
\* matching unroll or folding creates a MultiMma op).
PatternApplies ==
    /\ pc = "verified"
    /\ \E junk \in JunkReadsOf(op) :
          \/ unrollWithOptions(op, nativeShape, junk).status = "success"
          \/ matchAndRewriteDrop(op, junk).status = "success"
          \/ matchAndRewriteLower(op, junk).status # "failure"

\* The verifier runs on a built op, and the driver does not stop while a
\* pattern matches: weak fairness of Verify and of DriverRewrite, the latter
\* written out with PatternApplies for ENABLED <<DriverRewrite>>_vars.
SpecDriverFair ==
    /\ SpecDriver
    /\ WF_vars(Verify)
    /\ ([]<>~PatternApplies \/ []<><<DriverRewrite>>_vars)

\* The driver is done: the op was rejected or erased, or no pattern matches.
Quiescent ==
    \/ pc \in {"rejected", "aborted", "erased"}
    \/ pc = "verified" /\ ~PatternApplies

\* C21: from a verified op of vector semantics and a fixed native shape,
\* applying the unroll, the unit-dimension folding and the lowering patterns
\* in any order comes to a state where none of them applies.
C21_RewritingTerminates == <>Quiescent

\* C21 for the ops whose bounds are all read from their shapes.
C21_WhereBoundsAreFound == (pc = "verified" /\ allBoundsFound(op)) ~> Quiescent

\* Where the bounds are all read from the shapes, an op the unroll pattern
\* created is rejected by the unroll pattern and an op the folding created
\* is rejected by the folding.
C21_CreatedOpsAreRejected ==
    (pc = "verified" /\ allBoundsFound(op)) =>
        /\ mmaRewrite.pattern = "unroll" =>
              unrollWithOptions(op, nativeShape, 1).status = "failure"
        /\ mmaRewrite.pattern = "drop" =>
              matchAndRewriteDrop(op, 1).status = "failure"

====
